---- MODULE Spec2Model ----
(***************************************************************************)
(* Gattrose-NG host controller (flipper_bw16_deauther/gattrose_ng.c):      *)
(* the serial framer, the message decoders, the bounded inventory and the  *)
(* control path that clears and sorts it.                                  *)
(*                                                                         *)
(* Strings are C strings: sequences of byte codes without the terminating  *)
(* NUL.  A char array that the code zeroes before a bounded strncpy is     *)
(* modelled by the copied prefix.                                          *)
(*                                                                         *)
(* Not modelled: console_buffer/log_buffer, firmware_response, the byte    *)
(* counters, the device_* status fields and the notification and GUI calls *)
(* (no decoder or command reads them back).                                *)
(***************************************************************************)
EXTENDS Integers, Sequences, FiniteSets, TLC

(***************************************************************************)
(* Program constants                                                       *)
(***************************************************************************)
PROTO_STX == 2
PROTO_ETX == 3
PROTO_SEP == 29
MAX_NETWORKS == 64
MAX_CLIENTS == 128
MAX_CLIENTS_PER_AP == 16
MAX_SSID_LEN == 33
MAX_BSSID_LEN == 18
MAX_BLE_DEVICES == 32
RX_LINE_SIZE == 256
CREDENTIALS_SIZE == 512

FirmwareUnknown == 0
FirmwareGattrose == 1
FirmwareEvilBW16 == 2
FirmwarePingequa == 3
FirmwareMarauder == 4
FirmwareGeneric == 5

(***************************************************************************)
(* Bytes and C strings                                                     *)
(***************************************************************************)
\* Printable ASCII 32..126; the three characters that cannot be written in
\* a TLA+ string (34, 92, 96) are left empty and never looked up.
AsciiTable ==
  <<" ","!","","#","$","%","&","'","(",")","*","+",",","-",".","/",
    "0","1","2","3","4","5","6","7","8","9",":",";","<","=",">","?",
    "@","A","B","C","D","E","F","G","H","I","J","K","L","M","N","O",
    "P","Q","R","S","T","U","V","W","X","Y","Z","[","","]","^","_",
    "","a","b","c","d","e","f","g","h","i","j","k","l","m","n","o",
    "p","q","r","s","t","u","v","w","x","y","z","{","|","}","~">>

\* The code of each table character.
AsciiCode ==
  [c \in {AsciiTable[k] : k \in 1..Len(AsciiTable)} \ {""} |->
     31 + CHOOSE k \in 1..Len(AsciiTable) : AsciiTable[k] = c]

Code(c) == AsciiCode[c]

\* The byte sequence of a string literal.
Bytes(s) == [i \in 1..Len(s) |-> Code(SubSeq(s, i, i))]

LF == 10
CR == 13
TAB == 9
COLON == Code(":")
MINUS == Code("-")
PIPE == Code("|")
PLUS == Code("+")

\* The message tags of process_rx_message.
Tag ==
  [C |-> Code("C"), c |-> Code("c"), i |-> Code("i"), l |-> Code("l"),
   m |-> Code("m"), n |-> Code("n"), r |-> Code("r"), s |-> Code("s"),
   x |-> Code("x")]

\* The string literals the decoders compare against (and the character v).
Lit ==
  [AP_ |-> Bytes("AP:"), ATPLUS |-> Bytes("AT+"),
   BEACON_ |-> Bytes("BEACON:"), BLESCAN |-> Bytes("BLESCAN"),
   BLE_BAR |-> Bytes("BLE:|"), BLE_SCANNING |-> Bytes("BLE_SCANNING"),
   BLE_SPAM_ON |-> Bytes("BLE_SPAM_ON"), BLE_STOP |-> Bytes("BLE_STOP"),
   BW16 |-> Bytes("BW16"), CLIENTS |-> Bytes("CLIENTS"),
   CLIENT_ |-> Bytes("CLIENT:"), DEAUTH_ |-> Bytes("DEAUTH:"),
   DONE_ |-> Bytes("DONE:"), ERROR_ |-> Bytes("ERROR:"),
   ESP32 |-> Bytes("ESP32"), EV_ |-> Bytes("EV:"), Evil |-> Bytes("Evil"),
   GATTROSE_BW16_ |-> Bytes("GATTROSE-BW16:"),
   Gattrose |-> Bytes("Gattrose"), HELP_ |-> Bytes("HELP:"),
   INFO_ |-> Bytes("INFO:"), LED |-> Bytes("LED"),
   Marauder |-> Bytes("Marauder"), New |-> Bytes("NEW"),
   OFF |-> Bytes("OFF"), OK |-> Bytes("OK"), ON |-> Bytes("ON"),
   PLUS |-> Bytes("+"), PONG |-> Bytes("PONG"), QQQ |-> Bytes("???"),
   SCANNING |-> Bytes("SCANNING"), SCAN_ |-> Bytes("SCAN:"),
   SCAN_DONE_ |-> Bytes("SCAN_DONE:"), SCAN_OK |-> Bytes("SCAN:OK"),
   STA_ |-> Bytes("STA:"), Unknown |-> Bytes("Unknown"), V_ |-> Bytes("V:"),
   v |-> Code("v")]

Min(a, b) == IF a < b THEN a ELSE b

\* Least element of a non-empty set of integers.
SetMin(S) == CHOOSE x \in S : \A y \in S : x <= y

Take(s, n) == SubSeq(s, 1, Min(n, Len(s)))

Drop(s, n) == SubSeq(s, n + 1, Len(s))

\* The C string that starts at the beginning of a buffer: up to the first NUL.
CStr(buf) ==
  LET nuls == {i \in 1..Len(buf) : buf[i] = 0}
  IN IF nuls = {} THEN buf ELSE SubSeq(buf, 1, SetMin(nuls) - 1)

\* strncmp(s, p, Len(p)) == 0
\* A test that finds p anywhere in s.
HasPrefixAnywhere(s, p) ==
  \E i \in 1..(Len(s) - Len(p) + 1) : SubSeq(s, i, i + Len(p) - 1) = p

HasPrefix(s, p) == Len(s) >= Len(p) /\ SubSeq(s, 1, Len(p)) = p

\* strstr(s, p) != NULL
Contains(s, p) ==
  \E i \in 1..(Len(s) - Len(p) + 1) : SubSeq(s, i, i + Len(p) - 1) = p

\* First 1-based position of byte ch in s, 0 when absent (strchr / strstr of
\* a one-character needle).
FirstPos(s, ch) ==
  LET hits == {i \in 1..Len(s) : s[i] = ch}
  IN IF hits = {} THEN 0 ELSE SetMin(hits)

\* Replace every byte `from` of s by `to` (the separator normalisation loops).
ReplaceByte(s, from, to) ==
  [i \in 1..Len(s) |-> IF s[i] = from THEN to ELSE s[i]]

IsDigit(b) == b >= 48 /\ b <= 57

IsSpace(b) == b \in {32, 9, 10, 11, 12, 13}

RECURSIVE DigitsValue(_)
\* Value of a sequence of decimal digits, by halves (keeps recursion shallow).
DigitsValue(d) ==
  IF Len(d) = 0 THEN 0
  ELSE IF Len(d) = 1 THEN d[1] - 48
  ELSE LET m == Len(d) \div 2
       IN DigitsValue(SubSeq(d, 1, m)) * (10 ^ (Len(d) - m))
          + DigitsValue(SubSeq(d, m + 1, Len(d)))

\* The run of leading digits only: no white space, no sign.
atoiUnsigned(s) ==
  DigitsValue(Take(s, SetMin({i \in 1..Len(s) : ~IsDigit(s[i])}
                               \union {Len(s) + 1}) - 1))

\* atoi: optional white space, optional sign, the longest run of digits;
\* 0 when there is none.
atoi(s) ==
  LET ws   == SetMin({i \in 1..Len(s) : ~IsSpace(s[i])} \union {Len(s) + 1}) - 1
      t    == Drop(s, ws)
      neg  == Len(t) > 0 /\ t[1] = MINUS
      sgn  == Len(t) > 0 /\ t[1] \in {MINUS, PLUS}
      u    == IF sgn THEN Drop(t, 1) ELSE t
      nd   == SetMin({i \in 1..Len(u) : ~IsDigit(u[i])} \union {Len(u) + 1}) - 1
      v    == DigitsValue(Take(u, nd))
  IN IF neg THEN 0 - v ELSE v

(***************************************************************************)
(* Token scanner                                                           *)
(***************************************************************************)
\* TokenState: str is the buffer (NUL bytes appear where a delimiter was
\* consumed), pos the 0-based cursor.
token_init(str) == [str |-> str, pos |-> 0]

\* Byte at 0-based offset p of a buffer; the terminator past its end.
ByteAt(str, p) == IF p < Len(str) THEN str[p + 1] ELSE 0

\* A tokenizer that skips the delimiters in front of a token, as strtok
\* does: it never returns an empty token.
token_nextSkipsEmpty(state, delim) ==
  LET from == SetMin({p \in state.pos..Len(state.str) :
                        ByteAt(state.str, p) # delim})
  IN IF ByteAt(state.str, from) = 0
     THEN [found |-> FALSE, tok |-> <<>>, st |-> state]
     ELSE LET stop == SetMin({p \in from..Len(state.str) :
                                ByteAt(state.str, p) \in {0, delim}})
              tok  == SubSeq(state.str, from + 1, stop)
          IN IF ByteAt(state.str, stop) = delim
             THEN [found |-> TRUE, tok |-> tok,
                   st |-> [str |-> [state.str EXCEPT ![stop + 1] = 0],
                           pos |-> stop + 1]]
             ELSE [found |-> TRUE, tok |-> tok,
                   st |-> [str |-> state.str, pos |-> stop]]

\* token_next: found = FALSE is the NULL return.  Otherwise tok is the
\* token and st the advanced state with the consumed delimiter overwritten.
token_next(state, delim) ==
  IF ByteAt(state.str, state.pos) = 0
  THEN [found |-> FALSE, tok |-> <<>>, st |-> state]
  ELSE LET stop == SetMin({p \in state.pos..Len(state.str) :
                              ByteAt(state.str, p) \in {0, delim}})
           tok  == SubSeq(state.str, state.pos + 1, stop)
       IN IF ByteAt(state.str, stop) = delim
          THEN [found |-> TRUE, tok |-> tok,
                st |-> [str |-> [state.str EXCEPT ![stop + 1] = 0],
                        pos |-> stop + 1]]
          ELSE [found |-> TRUE, tok |-> tok,
                st |-> [str |-> state.str, pos |-> stop]]

\* The results of n successive token_next calls, in call order.
RECURSIVE ScanTokens(_, _, _)
ScanTokens(state, delim, n) ==
  IF n = 0 THEN <<>>
  ELSE LET t == token_next(state, delim)
       IN <<t>> \o ScanTokens(t.st, delim, n - 1)

(***************************************************************************)
(* Data model                                                              *)
(***************************************************************************)
\* memset(net, 0, sizeof(Network))
NetworkZero ==
  [id |-> 0, ssid |-> <<>>, bssid |-> <<>>, channel |-> 0, rssi |-> 0,
   security |-> 0, is_5ghz |-> FALSE, deauth_active |-> FALSE,
   client_count |-> 0,
   client_indices |-> [i \in 0..(MAX_CLIENTS_PER_AP - 1) |-> 0],
   security_str |-> <<>>, has_pmf |-> FALSE, hidden |-> FALSE]

ClientZero == [mac |-> <<>>, rssi |-> 0, ap_index |-> 0]

BleDeviceZero == [address |-> <<>>, name |-> <<>>, rssi |-> 0]

\* firmware_caps[]: one row per FirmwareType.
Caps(ws, w5, cd, td, bd, bs, et, bsc, bsp, ch, mm, ea) ==
  [wifi_scan |-> ws, wifi_scan_5ghz |-> w5, client_detection |-> cd,
   targeted_deauth |-> td, broadcast_deauth |-> bd, beacon_spam |-> bs,
   evil_twin |-> et, ble_scan |-> bsc, ble_spam |-> bsp,
   channel_hop |-> ch, monitor_mode |-> mm, eapol_capture |-> ea]

firmware_caps ==
  [t \in FirmwareUnknown..FirmwareGeneric |->
     CASE t = FirmwareUnknown ->
            Caps(TRUE, FALSE, FALSE, FALSE, TRUE, FALSE, FALSE, FALSE, FALSE,
                 FALSE, FALSE, FALSE)
       [] t = FirmwareGattrose ->
            Caps(TRUE, TRUE, TRUE, TRUE, TRUE, TRUE, TRUE, TRUE, TRUE,
                 TRUE, TRUE, TRUE)
       [] t = FirmwareEvilBW16 ->
            Caps(TRUE, TRUE, FALSE, FALSE, TRUE, TRUE, TRUE, FALSE, FALSE,
                 TRUE, FALSE, TRUE)
       [] t = FirmwarePingequa ->
            Caps(TRUE, FALSE, FALSE, FALSE, TRUE, FALSE, FALSE, FALSE, FALSE,
                 FALSE, FALSE, FALSE)
       [] t = FirmwareMarauder ->
            Caps(TRUE, FALSE, FALSE, FALSE, TRUE, TRUE, FALSE, TRUE, TRUE,
                 FALSE, FALSE, FALSE)
       [] OTHER ->
            Caps(TRUE, FALSE, FALSE, FALSE, FALSE, FALSE, FALSE, FALSE, FALSE,
                 FALSE, FALSE, FALSE)]

\* memset(caps, 0): the capability set before any detection has run.
CapsZero ==
  Caps(FALSE, FALSE, FALSE, FALSE, FALSE, FALSE, FALSE, FALSE, FALSE,
       FALSE, FALSE, FALSE)

\* The App object after app_alloc (memset 0, then the defaults).
AppInit ==
  [connected |-> FALSE, uart_running |-> FALSE,
   networks |-> [i \in 0..(MAX_NETWORKS - 1) |-> NetworkZero],
   network_count |-> 0,
   clients |-> [i \in 0..(MAX_CLIENTS - 1) |-> ClientZero],
   client_count |-> 0,
   selected_network |-> 0,
   ble_devices |-> [i \in 0..(MAX_BLE_DEVICES - 1) |-> BleDeviceZero],
   ble_count |-> 0,
   monitor_active |-> FALSE,
   deauth_reason |-> 2, portal_type |-> 0,
   credentials |-> <<>>,
   scan_finished |-> FALSE, scanning |-> FALSE,
   rx_line |-> <<>>, rx_pos |-> 0,
   firmware_type |-> FirmwareUnknown, caps |-> CapsZero,
   firmware_version |-> <<>>,
   detection_done |-> FALSE, got_pong |-> FALSE, got_info |-> FALSE,
   got_help |-> FALSE,
   jammer_active |-> FALSE, probe_log_active |-> FALSE,
   karma_active |-> FALSE, pmkid_capture_active |-> FALSE,
   handshake_capture_active |-> FALSE, rogue_monitor_active |-> FALSE]

(***************************************************************************)
(* Binary decoders (process_rx_message and the parse_* functions)          *)
(***************************************************************************)
\* What the slot's memset alone leaves in client_indices.
ZeroedIndices == [i \in 0..(MAX_CLIENTS_PER_AP - 1) |-> 0]

\* client_indices after the loop that marks every entry free.
Unlinked == [i \in 0..(MAX_CLIENTS_PER_AP - 1) |-> -1]

\* The capacity guard of parse_network_message.
NetworksFull(a) == a.network_count >= MAX_NETWORKS

\* The client count a binary network message stores: the wire's field 7.
WireClientCount(tok) == atoi(tok)

\* A parser that accepts a network message only when all ten fields are
\* present.
parse_network_messageStrict(a, data) ==
  IF a.network_count >= MAX_NETWORKS THEN a
  ELSE
    LET buffer == ReplaceByte(Take(data, 127), PROTO_SEP, PIPE)
        toks   == ScanTokens(token_init(buffer), PIPE, 10)
        net ==
          [id             |-> atoi(toks[1].tok),
           ssid           |-> Take(toks[2].tok, MAX_SSID_LEN - 1),
           bssid          |-> Take(toks[3].tok, MAX_BSSID_LEN - 1),
           channel        |-> atoi(toks[4].tok),
           rssi           |-> atoi(toks[5].tok),
           security       |-> 0,
           is_5ghz        |-> (atoi(toks[6].tok) = 5),
           deauth_active  |-> FALSE,
           client_count   |-> atoi(toks[7].tok),
           client_indices |-> [i \in 0..(MAX_CLIENTS_PER_AP - 1) |-> -1],
           security_str   |-> Take(toks[8].tok, 15),
           has_pmf        |-> (atoi(toks[9].tok) = 1),
           hidden         |-> (atoi(toks[10].tok) = 1)]
    IN [a EXCEPT !.networks[a.network_count] = net,
                 !.network_count = IF toks[10].found THEN @ + 1 ELSE @]

\* parse_network_message.  The slot networks[network_count] is zeroed, its
\* client_indices set to -1, and the fields stored in wire order until a
\* token is missing: the first five return when missing (network_count is
\* then unchanged and the slot stays partly written), the others are
\* optional.  Once token_next has returned NULL it returns NULL again, and
\* ScanTokens then gives the empty token, whose atoi is 0.
parse_network_message(a, data) ==
  IF NetworksFull(a) THEN a
  ELSE
    LET buffer == ReplaceByte(Take(data, 127), PROTO_SEP, PIPE)
        toks   == ScanTokens(token_init(buffer), PIPE, 10)
        net ==
          [id             |-> atoi(toks[1].tok),
           ssid           |-> Take(toks[2].tok, MAX_SSID_LEN - 1),
           bssid          |-> Take(toks[3].tok, MAX_BSSID_LEN - 1),
           channel        |-> atoi(toks[4].tok),
           rssi           |-> atoi(toks[5].tok),
           security       |-> 0,
           is_5ghz        |-> (atoi(toks[6].tok) = 5),
           deauth_active  |-> FALSE,
           client_count   |-> WireClientCount(toks[7].tok),
           client_indices |-> Unlinked,
           security_str   |-> IF toks[8].found THEN Take(toks[8].tok, 15)
                              ELSE IF toks[5].found THEN Lit.QQQ
                              ELSE <<>>,
           has_pmf        |-> (atoi(toks[9].tok) = 1),
           hidden         |-> (atoi(toks[10].tok) = 1)]
    IN [a EXCEPT !.networks[a.network_count] = net,
                 !.network_count = IF toks[5].found THEN @ + 1 ELSE @]

\* The guard with > for >=.
ClientsFullOffByOne(a) == a.client_count > MAX_CLIENTS

\* The capacity guard of parse_client_message and of the legacy CLIENT branch.
ClientsFull(a) == a.client_count >= MAX_CLIENTS

\* Number of leading occupied entries of a client_indices array (the
\* counting loop of parse_client_message, which stops at the first free one).
ActualCount(ci) ==
  IF \E i \in 0..(MAX_CLIENTS_PER_AP - 1) : ci[i] < 0
  THEN CHOOSE i \in 0..(MAX_CLIENTS_PER_AP - 1) :
         ci[i] < 0 /\ \A j \in 0..(i - 1) : ci[j] >= 0
  ELSE MAX_CLIENTS_PER_AP

\* "Check if client already exists": strcmp against every stored MAC.
ClientExists(a, client_mac) ==
  \E i \in 0..(a.client_count - 1) : a.clients[i].mac = client_mac

\* The validation without its upper bound.
ApIndexNotNegative(a, ap_idx) == ap_idx >= 0

\* "Validate AP index" of parse_client_message.
ApIndexValid(a, ap_idx) == ap_idx >= 0 /\ ap_idx < a.network_count

\* The link step of parse_client_message: append the new client's position
\* to the owner's list when it has room, and raise client_count to the
\* occupancy when it is lower.
LinkBinary(net, pos) ==
  LET actual_count == ActualCount(net.client_indices)
  IN IF actual_count < MAX_CLIENTS_PER_AP
     THEN [net EXCEPT !.client_indices[actual_count] = pos,
                      !.client_count =
                        IF actual_count + 1 > net.client_count
                        THEN actual_count + 1 ELSE net.client_count]
     ELSE net

\* parse_client_message
parse_client_message(a, data) ==
  IF ClientsFull(a) THEN a
  ELSE
    LET buffer == ReplaceByte(Take(data, 63), PROTO_SEP, PIPE)
        toks   == ScanTokens(token_init(buffer), PIPE, 3)
        T(k)   == toks[k]
        ap_idx == atoi(T(1).tok)
        client_mac == T(2).tok
        rssi   == IF T(3).found THEN atoi(T(3).tok) ELSE -80
    IN IF ~T(1).found \/ ~T(2).found THEN a
       ELSE IF ClientExists(a, client_mac) THEN a
       ELSE IF ~ApIndexValid(a, ap_idx) THEN a
       ELSE [a EXCEPT
               !.clients[a.client_count] =
                  [mac |-> Take(client_mac, MAX_BSSID_LEN - 1),
                   rssi |-> rssi, ap_index |-> ap_idx],
               !.networks[ap_idx] = LinkBinary(@, a.client_count),
               !.client_count = a.client_count + 1]

\* The capacity guard of parse_ble_message.
BleFull(a) == a.ble_count >= MAX_BLE_DEVICES

\* parse_ble_message
parse_ble_message(a, data) ==
  IF BleFull(a) THEN a
  ELSE
    LET buffer == ReplaceByte(Take(data, 127), PROTO_SEP, PIPE)
        toks   == ScanTokens(token_init(buffer), PIPE, 3)
        T(k)   == toks[k]
        dev == [address |-> Take(T(1).tok, MAX_BSSID_LEN - 1),
                name |-> IF T(2).found THEN Take(T(2).tok, 63)
                         ELSE Lit.Unknown,
                rssi |-> IF T(3).found THEN atoi(T(3).tok) ELSE -80]
    IN IF ~T(1).found
       THEN [a EXCEPT !.ble_devices[a.ble_count] = BleDeviceZero]
       ELSE [a EXCEPT !.ble_devices[a.ble_count] = dev,
                      !.ble_count = a.ble_count + 1]

\* An append that does not look at the space left.
AppendCredentialUnbounded(a, cred) ==
  [a EXCEPT !.credentials = a.credentials \o cred \o <<LF>>]

\* The append of a credential line to app->credentials (shared by
\* parse_credential_message and the legacy EV: branch).
\* space is a size_t: below zero it wraps to a value no length reaches.
AppendCredential(a, cred) ==
  LET current_len == Len(a.credentials)
      space == CREDENTIALS_SIZE - current_len - 2
  IN IF space < 0 \/ Len(cred) < space
     THEN [a EXCEPT !.credentials = a.credentials \o cred \o <<LF>>]
     ELSE a

\* parse_credential_message
parse_credential_message(a, data) ==
  AppendCredential(a, ReplaceByte(Take(data, 255), PROTO_SEP, PIPE))

\* A monitor status that flips the flag on every ON.
MonitorStatusToggles(a, data) ==
  IF Contains(data, Lit.ON)
  THEN [a EXCEPT !.monitor_active = ~@]
  ELSE IF Contains(data, Lit.OFF)
  THEN [a EXCEPT !.monitor_active = FALSE]
  ELSE a

\* RESP_MONITOR: the status text is searched for ON first, then for OFF.
MonitorStatus(a, data) ==
  IF Contains(data, Lit.ON)
  THEN [a EXCEPT !.monitor_active = TRUE]
  ELSE IF Contains(data, Lit.OFF)
  THEN [a EXCEPT !.monitor_active = FALSE]
  ELSE a

\* process_rx_message: msg is the frame content rx_line[0..len-1]; the tag
\* is its first byte and data the C string that follows it.
process_rx_message(a, msg) ==
  IF Len(msg) < 1 THEN a
  ELSE
    LET resp_type == msg[1]
        data == CStr(Drop(msg, 1))
    IN
    CASE resp_type = Tag.r ->
           IF HasPrefix(data, Lit.LED) THEN a
           ELSE [a EXCEPT
                   !.firmware_type = FirmwareGattrose,
                   !.firmware_version =
                      IF FirstPos(data, COLON) > 0
                      THEN Take(Drop(data, FirstPos(data, COLON)), 31)
                      ELSE @,
                   !.detection_done = TRUE]
      [] resp_type = Tag.s ->
           IF HasPrefix(data, Lit.DONE_)
           THEN [a EXCEPT !.scan_finished = TRUE]
           ELSE IF data = Lit.SCANNING
           THEN [a EXCEPT !.scanning = TRUE]
           ELSE a
      [] resp_type = Tag.n -> parse_network_message(a, data)
      [] resp_type = Tag.c -> parse_client_message(a, data)
      [] resp_type = Tag.l ->
           IF \/ HasPrefix(data, Lit.SCAN_DONE_)
              \/ data \in {Lit.BLE_SCANNING, Lit.BLE_SPAM_ON,
                           Lit.BLE_STOP}
           THEN a
           ELSE parse_ble_message(a, data)
      [] resp_type = Tag.C -> parse_credential_message(a, data)
      [] resp_type = Tag.i ->
           IF Len(data) > 0 /\ IsDigit(data[1]) /\ Len(data) < 5
           THEN [a EXCEPT !.got_info = TRUE]
           ELSE
             LET vpos == IF Contains(data, Lit.V_)
                         THEN CHOOSE i \in 1..Len(data) :
                                /\ HasPrefix(Drop(data, i - 1), Lit.V_)
                                /\ \A j \in 1..(i - 1) :
                                     ~HasPrefix(Drop(data, j - 1), Lit.V_)
                         ELSE 0
                 rest == Drop(data, vpos + 1)
                 vlen == FirstPos(Drop(data, vpos - 1), PIPE) - 3
             IN [a EXCEPT
                   !.firmware_version =
                      IF vpos > 0 /\ vlen >= 0 /\ vlen < 31
                      THEN Take(rest, vlen) ELSE @,
                   !.got_info = TRUE]
      [] resp_type = Tag.m -> MonitorStatus(a, data)
      [] resp_type = Tag.x ->
           [a EXCEPT
              !.monitor_active = FALSE,
              !.networks = [i \in 0..(MAX_NETWORKS - 1) |->
                              IF i < a.network_count
                              THEN [a.networks[i] EXCEPT
                                      !.deauth_active = FALSE]
                              ELSE a.networks[i]]]
      \* e, d, w, b, p, a, k and unknown tags only log or notify.
      [] OTHER -> a

(***************************************************************************)
(* Legacy line decoder (process_rx_line)                                   *)
(***************************************************************************)
\* "Find AP by ID": the first position whose id matches, -1 when none.
FindApById(a, ap_id) ==
  IF \E i \in 0..(a.network_count - 1) : a.networks[i].id = ap_id
  THEN CHOOSE i \in 0..(a.network_count - 1) :
         /\ a.networks[i].id = ap_id
         /\ \A j \in 0..(i - 1) : a.networks[j].id # ap_id
  ELSE -1

\* The link step of the legacy CLIENT/STA branch:
\*   if(net->client_count < MAX_CLIENTS_PER_AP)
\*       net->client_indices[net->client_count++] = app->client_count;
\* With a negative client_count the store is out of bounds (undefined).
\* Its outcomes follow the layout of Network on the 32-bit target: index -1
\* is client_count itself (the store and the increment are unsequenced, so
\* either may win: store_wins), -2 the two bool bytes, -3 security, -4 rssi,
\* -5 channel; lower indices fall into the strings, which are left alone.
LinkLegacy(net, pos, store_wins) ==
  LET cc == net.client_count
  IN IF cc >= MAX_CLIENTS_PER_AP THEN net
     ELSE IF cc >= 0
     THEN [net EXCEPT !.client_indices[cc] = pos, !.client_count = cc + 1]
     ELSE IF cc = -1
     THEN [net EXCEPT !.client_count = IF store_wins THEN pos ELSE 0]
     ELSE IF cc = -2
     THEN [net EXCEPT !.is_5ghz = (pos % 256 # 0),
                      !.deauth_active = ((pos \div 256) % 256 # 0),
                      !.client_count = cc + 1]
     ELSE IF cc = -3
     THEN [net EXCEPT !.security = pos, !.client_count = cc + 1]
     ELSE IF cc = -4
     THEN [net EXCEPT !.rssi = pos, !.client_count = cc + 1]
     ELSE IF cc = -5
     THEN [net EXCEPT !.channel = pos, !.client_count = cc + 1]
     ELSE [net EXCEPT !.client_count = cc + 1]

\* The guard of the AP: branch with > for >=.
LegacyNetworksFullOffByOne(a) == a.network_count > MAX_NETWORKS

\* The capacity guard of the AP: branch of process_rx_line.
LegacyNetworksFull(a) == a.network_count >= MAX_NETWORKS

\* The AP: branch of process_rx_line: AP:id:ssid:bssid:channel:security:
\* rssi[:clients], split at every colon.  The slot is zeroed and filled as
\* in parse_network_message; the tokens up to rssi return when missing.
parse_legacy_ap(a, line) ==
  IF LegacyNetworksFull(a) THEN a
  ELSE
    LET buffer == ReplaceByte(Take(line, 127), COLON, PIPE)
        toks   == ScanTokens(token_init(buffer), PIPE, 8)
        channel == atoi(toks[5].tok)
        net ==
          [id             |-> atoi(toks[2].tok),
           ssid           |-> Take(toks[3].tok, MAX_SSID_LEN - 1),
           bssid          |-> Take(toks[4].tok, MAX_BSSID_LEN - 1),
           channel        |-> channel,
           rssi           |-> atoi(toks[7].tok),
           security       |-> atoi(toks[6].tok),
           is_5ghz        |-> (toks[7].found /\ channel >= 36),
           deauth_active  |-> FALSE,
           client_count   |-> atoi(toks[8].tok),
           client_indices |-> Unlinked,
           security_str   |-> <<>>,
           has_pmf        |-> FALSE,
           hidden         |-> FALSE]
    IN [a EXCEPT !.networks[a.network_count] = net,
                 !.network_count = IF toks[7].found THEN @ + 1 ELSE @]

\* The CLIENT: / STA: branch of process_rx_line.
parse_legacy_client(a, line, store_wins) ==
  IF ClientsFull(a) THEN a
  ELSE
    LET buffer == ReplaceByte(Take(line, 63), COLON, PIPE)
        toks   == ScanTokens(token_init(buffer), PIPE, 5)
        T(k)   == toks[k]
        \* Skip "NEW" if present
        skip   == IF T(2).found /\ T(2).tok = Lit.New THEN 1 ELSE 0
        ap_id  == atoi(T(2 + skip).tok)
        client_mac == T(3 + skip).tok
        rssi   == IF T(4 + skip).found THEN atoi(T(4 + skip).tok) ELSE -80
        ap_index == FindApById(a, ap_id)
    IN IF ~T(2 + skip).found \/ ~T(3 + skip).found THEN a
       ELSE IF ap_index < 0 THEN a
       ELSE IF ClientExists(a, client_mac) THEN a
       ELSE [a EXCEPT
               !.clients[a.client_count] =
                  [mac |-> Take(client_mac, MAX_BSSID_LEN - 1),
                   rssi |-> rssi, ap_index |-> ap_index],
               !.networks[ap_index] =
                  LinkLegacy(@, a.client_count, store_wins),
               !.client_count = a.client_count + 1]

\* process_rx_line: the branches in the order of the else-if chain.
process_rx_line(a, line, store_wins) ==
  IF Len(line) < 2 THEN a
  ELSE IF HasPrefix(line, Lit.AP_) THEN parse_legacy_ap(a, line)
  ELSE IF HasPrefix(line, Lit.CLIENT_) \/ HasPrefix(line, Lit.STA_)
  THEN parse_legacy_client(a, line, store_wins)
  ELSE IF HasPrefix(line, Lit.SCAN_OK)
  THEN [a EXCEPT !.scan_finished = TRUE]
  ELSE IF HasPrefix(line, Lit.EV_)
  THEN AppendCredential(a, Drop(line, 3))
  ELSE IF \/ HasPrefix(line, Lit.ERROR_)
          \/ HasPrefix(line, Lit.DEAUTH_)
          \/ HasPrefix(line, Lit.BEACON_)
          \/ HasPrefix(line, Lit.BLE_BAR)
          \/ HasPrefix(line, Lit.SCAN_)
  THEN a
  ELSE IF line = Lit.PONG THEN [a EXCEPT !.got_pong = TRUE]
  ELSE IF HasPrefix(line, Lit.GATTROSE_BW16_)
  THEN [a EXCEPT !.firmware_type = FirmwareGattrose,
                 !.detection_done = TRUE]
  ELSE IF HasPrefix(line, Lit.INFO_)
  THEN IF Contains(line, Lit.Gattrose)
       THEN [a EXCEPT
               !.got_info = TRUE,
               !.firmware_type = FirmwareGattrose,
               !.firmware_version =
                  IF FirstPos(line, Lit.v) > 0
                  THEN Take(Drop(line, FirstPos(line, Lit.v) - 1), 31)
                  ELSE @]
       ELSE IF Contains(line, Lit.Evil) \/ Contains(line, Lit.BW16)
       THEN [a EXCEPT !.got_info = TRUE, !.firmware_type = FirmwareEvilBW16]
       ELSE [a EXCEPT !.got_info = TRUE]
  ELSE IF HasPrefix(line, Lit.HELP_)
  THEN [a EXCEPT
          !.got_help = TRUE,
          !.firmware_type =
             IF Contains(line, Lit.BLESCAN) \/ Contains(line, Lit.CLIENTS)
             THEN FirmwareGattrose ELSE @]
  ELSE IF Contains(line, Lit.Marauder) \/ Contains(line, Lit.ESP32)
  THEN [a EXCEPT !.firmware_type = FirmwareMarauder,
                 !.detection_done = TRUE]
  ELSE IF line = Lit.OK /\ ~a.detection_done
  THEN [a EXCEPT !.firmware_type =
                    IF @ = FirmwareUnknown THEN FirmwareGeneric ELSE @]
  ELSE IF HasPrefix(line, Lit.ATPLUS) \/ HasPrefix(line, Lit.PLUS)
  THEN [a EXCEPT !.firmware_type = FirmwareGeneric]
  ELSE a

(***************************************************************************)
(* Byte framer (the loop body of uart_rx_thread)                           *)
(***************************************************************************)
\* A guard that stops at half the buffer.
RxHasRoomHalf(a) == a.rx_pos < RX_LINE_SIZE \div 2

\* An append that restarts the buffer at every byte.
RxAppendOverwrites(a, data) == [a EXCEPT !.rx_line = <<data>>, !.rx_pos = 1]

\* A reset that leaves the buffer as it is.
RxResetKeepsBytes(a) == a

\* The guard without the room for the terminator.
RxHasRoomNoTerminator(a) == a.rx_pos < RX_LINE_SIZE

\* The append guard of both framer modes: room for the byte and the
\* terminator.
RxHasRoom(a) == a.rx_pos < RX_LINE_SIZE - 1

\* rx_line is modelled by its first rx_pos bytes: nothing reads the buffer
\* past rx_pos, where the terminator is written before a dispatch.
RxAppend(a, data) ==
  [a EXCEPT !.rx_line = Append(a.rx_line, data), !.rx_pos = a.rx_pos + 1]

RxReset(a) == [a EXCEPT !.rx_line = <<>>, !.rx_pos = 0]

\* One received byte.  r = [app, in_message, nul_at]: in_message is the
\* local flag of uart_rx_thread and nul_at the index of rx_line where the
\* last terminator was stored (-1: none yet).  The mutex is taken by no
\* other task, so the acquire always succeeds.
uart_rx_byte(r, data, store_wins) ==
  LET a == r.app
  IN
  IF data = PROTO_STX
  THEN [r EXCEPT !.app = RxReset(a), !.in_message = TRUE]
  ELSE IF data = PROTO_ETX /\ r.in_message
  THEN [app |-> RxReset(process_rx_message(a, a.rx_line)),
        in_message |-> FALSE, nul_at |-> a.rx_pos]
  ELSE IF r.in_message
  THEN IF RxHasRoom(a) THEN [r EXCEPT !.app = RxAppend(a, data)] ELSE r
  ELSE IF data = LF
  THEN IF a.rx_pos > 0
       THEN LET pos == IF a.rx_line[a.rx_pos] = CR
                       THEN a.rx_pos - 1 ELSE a.rx_pos
                t == [a EXCEPT !.rx_line = Take(a.rx_line, pos),
                               !.rx_pos = pos]
            IN [r EXCEPT
                  !.app = RxReset(process_rx_line(t, CStr(t.rx_line),
                                                  store_wins)),
                  !.nul_at = pos]
       ELSE r
  ELSE IF data >= 32 \/ data = TAB
  THEN IF RxHasRoom(a) THEN [r EXCEPT !.app = RxAppend(a, data)] ELSE r
  ELSE r

\* The framer applied to a run of bytes, one after the other (split by
\* halves to keep the evaluation shallow).
RECURSIVE uart_rx_bytes(_, _, _)
uart_rx_bytes(r, bytes, store_wins) ==
  \* (the first test makes TLC evaluate r before it descends)
  IF r.in_message \notin BOOLEAN \/ Len(bytes) = 0 THEN r
  ELSE IF Len(bytes) = 1 THEN uart_rx_byte(r, bytes[1], store_wins)
  ELSE LET m == Len(bytes) \div 2
       IN uart_rx_bytes(uart_rx_bytes(r, SubSeq(bytes, 1, m), store_wins),
                        SubSeq(bytes, m + 1, Len(bytes)), store_wins)

(***************************************************************************)
(* Ranking (network_should_swap, sort_networks)                            *)
(***************************************************************************)
\* The comparison with <= for <: equal signals are exchanged too.
network_should_swapOnTie(na, nb) ==
  IF na.client_count > 0 /\ nb.client_count = 0 THEN FALSE
  ELSE IF na.client_count = 0 /\ nb.client_count > 0 THEN TRUE
  ELSE na.rssi <= nb.rssi

\* network_should_swap: networks[j] and networks[j+1] are exchanged when
\* the first has no client and the second has one, or, that aside, when the
\* first has the weaker signal.
network_should_swap(na, nb) ==
  IF na.client_count > 0 /\ nb.client_count = 0 THEN FALSE
  ELSE IF na.client_count = 0 /\ nb.client_count > 0 THEN TRUE
  ELSE na.rssi < nb.rssi

\* The body of the inner loop: compare networks[j] and networks[j+1].
SwapStep(nets, j) ==
  IF network_should_swap(nets[j], nets[j + 1])
  THEN [nets EXCEPT ![j] = nets[j + 1], ![j + 1] = nets[j]]
  ELSE nets

\* The inner loop for j = lo .. hi, in order.
RECURSIVE BubbleInner(_, _, _)
BubbleInner(nets, lo, hi) ==
  \* (the first test makes TLC evaluate nets before it descends)
  IF nets[0].id \notin Int \/ lo > hi THEN nets
  ELSE IF lo = hi THEN SwapStep(nets, lo)
  ELSE LET m == (lo + hi) \div 2
       IN BubbleInner(BubbleInner(nets, lo, m), m + 1, hi)

\* The outer loop for i = lo .. hi, in order.
RECURSIVE BubbleOuter(_, _, _, _)
BubbleOuter(nets, count, lo, hi) ==
  IF nets[0].id \notin Int \/ lo > hi THEN nets
  ELSE IF lo = hi THEN BubbleInner(nets, 0, count - lo - 2)
  ELSE LET m == (lo + hi) \div 2
       IN BubbleOuter(BubbleOuter(nets, count, lo, m), count, m + 1, hi)

\* client_indices[ci] as the relink loop reads it.  ci runs up to
\* client_count - 1, so it leaves the array when the count exceeds
\* MAX_CLIENTS_PER_AP; such a read is undefined and yields oob.
ReadClientIndex(net, ci, oob) ==
  IF ci < MAX_CLIENTS_PER_AP THEN net.client_indices[ci] ELSE oob

\* The relink pass: client c gets the position of the last network whose
\* scanned entries contain c, and keeps its ap_index when none does.
Relink(a, nets, oob) ==
  [c \in 0..(MAX_CLIENTS - 1) |->
     IF c < a.client_count
     THEN LET hits == {n \in 0..(a.network_count - 1) :
                         \E ci \in 0..(nets[n].client_count - 1) :
                            ReadClientIndex(nets[n], ci, oob) = c}
          IN IF hits = {} THEN a.clients[c]
             ELSE [a.clients[c] EXCEPT
                     !.ap_index = CHOOSE n \in hits : \A k \in hits : k <= n]
     ELSE a.clients[c]]

sort_networks(a, oob) ==
  LET nets == BubbleOuter(a.networks, a.network_count, 0, a.network_count - 2)
  IN [a EXCEPT !.networks = nets, !.clients = Relink(a, nets, oob)]

(***************************************************************************)
(* State                                                                   *)
(***************************************************************************)
VARIABLES
  app,         \* the App object
  in_message,  \* uart_rx_thread's local: inside an STX/ETX frame
  pc,          \* position of the control path
  ret,         \* where detect_firmware returns to
  times,       \* do_scan's poll counter
  tx,          \* commands written to the transport by the running operation
  rx_used,     \* number of input runs the receive task has consumed
  last,        \* the last step taken, the counts before it, and where a
               \* received run stored its last terminator
  ts           \* a decoder's tokenizer: the buffer it was started on, the
               \* delimiter, the TokenState, and what each call returned

vars == <<app, in_message, pc, ret, times, tx, rx_used, last, ts>>

\* Bounds of the exploration: the number of input runs the receive task
\* consumes under each specification.
MaxRx == 2
MaxRxCap == 2
MaxRxFramer == 4
MaxRxDecode == 3
MaxRxDetect == 2
MaxRxSession == 3
MaxRxPortal == 3
MaxRxFraming == 3
MaxRxNetwork == 4
MaxRxTarget == 3
MaxRxRescan == 2
MaxRxReady == 2
MaxRxStop == 3

\* Largest collection handed to the sort on its own.
MaxSortLen == 4

\* Longest buffer handed to the tokenizer on its own.
MaxTokenLen == 4

\* Number of polls of scan_finished in do_scan.
SCAN_POLLS == 20

Pre(a) == [network_count |-> a.network_count, client_count |-> a.client_count,
           ble_count |-> a.ble_count, rx_pos |-> a.rx_pos]

\* The positions of a detect_firmware run after its reset.
DetectPhases ==
  {"detect_boot", "detect_modern", "detect_info", "detect_ping",
   "detect_help", "detect_at", "detect_complete"}

\* History of a step: heard is the set of runs of bytes received between
\* the reset and the return of the latest detect_firmware run.
Step(op, chunk) ==
  [op |-> op, chunk |-> chunk, pre |-> Pre(app), nul_at |-> -1,
   heard |-> IF op = "detect_reset" THEN {}
             ELSE IF op = "rx" /\ pc \in DetectPhases
             THEN last.heard \union {chunk}
             ELSE last.heard]

\* A tokenizer started on `buffer` (token_init) that no call has advanced.
TokenStart(buffer, delim) ==
  [buffer |-> buffer, delim |-> delim, state |-> token_init(buffer),
   returned |-> <<>>]

Init ==
  /\ app = AppInit
  /\ in_message = FALSE
  /\ pc = "boot"
  /\ ret = "idle"
  /\ times = 0
  /\ tx = <<>>
  /\ rx_used = 0
  /\ last = [op |-> "init", chunk |-> <<>>, pre |-> Pre(AppInit),
             nul_at |-> -1, heard |-> {}]
  /\ ts = TokenStart(<<>>, PIPE)

\* uart_send / uart_send_legacy: one entry of tx.
Framed(cmd) == [framed |-> TRUE, cmd |-> cmd]
Legacy(cmd) == [framed |-> FALSE, cmd |-> cmd]

\* uart_init, as called from the entry point and from do_scan.
uart_init(a) == [a EXCEPT !.uart_running = TRUE, !.connected = TRUE]

(***************************************************************************)
(* Receive task                                                            *)
(***************************************************************************)
\* The state the receive task leaves after a run: r is the framer's result.
RxResult(r, chunk) ==
  /\ app' = r.app
  /\ in_message' = r.in_message
  /\ ts' = ts
  /\ last' = [Step("rx", chunk) EXCEPT !.nul_at = r.nul_at]

\* A receive task that answers each run on the transport from inside the
\* section in which it processes the bytes.
RxAcknowledges(chunk, store_wins, budget) ==
  /\ app.uart_running
  /\ rx_used < budget
  /\ RxResult(uart_rx_bytes([app |-> app, in_message |-> in_message,
                              nul_at |-> -1], chunk, store_wins), chunk)
  /\ rx_used' = rx_used + 1
  /\ tx' = Append(tx, Framed("k"))
  /\ UNCHANGED <<pc, ret, times>>

\* The receive task consumes the run of bytes `chunk`.  Bytes that do not
\* complete a message touch only rx_line, rx_pos and in_message, which the
\* control path never accesses, so a run is one step.
Rx(chunk, store_wins, budget) ==
  /\ app.uart_running
  /\ rx_used < budget
  /\ RxResult(uart_rx_bytes([app |-> app, in_message |-> in_message,
                              nul_at |-> -1], chunk, store_wins), chunk)
  /\ rx_used' = rx_used + 1
  /\ UNCHANGED <<pc, ret, times, tx>>

(***************************************************************************)
(* Control path                                                            *)
(***************************************************************************)
\* Entry point: uart_init followed by detect_firmware.
Startup ==
  /\ pc = "boot"
  /\ app' = uart_init(app)
  /\ pc' = "detect_reset"
  /\ ret' = "idle"
  /\ tx' = <<>>
  /\ ts' = ts
  /\ last' = Step("startup", <<>>)
  /\ UNCHANGED <<in_message, times, rx_used>>

\* A reset that leaves the previous profile in place.
DetectResetKeepsProfile ==
  /\ pc = "detect_reset"
  /\ app' = [app EXCEPT !.firmware_version = <<>>,
                        !.detection_done = FALSE, !.got_pong = FALSE,
                        !.got_info = FALSE, !.got_help = FALSE]
  /\ pc' = "detect_boot"
  /\ ts' = ts
  /\ last' = Step("detect_reset", <<>>)
  /\ UNCHANGED <<in_message, ret, times, tx, rx_used>>

\* detect_firmware up to its first delay: reset the detection state.
DetectReset ==
  /\ pc = "detect_reset"
  /\ app' = [app EXCEPT !.firmware_type = FirmwareUnknown,
                        !.firmware_version = <<>>,
                        !.detection_done = FALSE, !.got_pong = FALSE,
                        !.got_info = FALSE, !.got_help = FALSE]
  /\ pc' = "detect_boot"
  /\ ts' = ts
  /\ last' = Step("detect_reset", <<>>)
  /\ UNCHANGED <<in_message, ret, times, tx, rx_used>>

\* After the boot wait: done on a boot banner, else send the modern probe.
DetectBoot ==
  /\ pc = "detect_boot"
  /\ IF app.detection_done /\ app.firmware_type = FirmwareGattrose
     THEN pc' = "detect_complete" /\ tx' = tx
     ELSE pc' = "detect_modern" /\ tx' = Append(tx, Framed("i"))
  /\ ts' = ts
  /\ last' = Step("detect_boot", <<>>)
  /\ UNCHANGED <<app, in_message, ret, times, rx_used>>

\* Phase 1 result, else send the legacy INFO probe.
DetectModern ==
  /\ pc = "detect_modern"
  /\ IF app.detection_done \/ app.got_info
     THEN /\ app' = [app EXCEPT !.firmware_type =
                       IF @ = FirmwareUnknown /\ app.got_info
                       THEN FirmwareGattrose ELSE @]
          /\ pc' = "detect_complete"
          /\ tx' = tx
     ELSE /\ app' = app
          /\ pc' = "detect_info"
          /\ tx' = Append(tx, Legacy("INFO"))
  /\ ts' = ts
  /\ last' = Step("detect_modern", <<>>)
  /\ UNCHANGED <<in_message, ret, times, rx_used>>

\* Phase 2 result, else send the legacy PING probe.
DetectInfo ==
  /\ pc = "detect_info"
  /\ IF app.detection_done
     THEN pc' = "detect_complete" /\ tx' = tx
     ELSE pc' = "detect_ping" /\ tx' = Append(tx, Legacy("PING"))
  /\ ts' = ts
  /\ last' = Step("detect_info", <<>>)
  /\ UNCHANGED <<app, in_message, ret, times, rx_used>>

\* Phase 3 result; phase 4 sends HELP while the profile is still unknown.
DetectPing ==
  /\ pc = "detect_ping"
  /\ LET ft == IF app.got_pong THEN FirmwareEvilBW16 ELSE app.firmware_type
     IN /\ app' = [app EXCEPT !.firmware_type = ft]
        /\ IF ft = FirmwareUnknown
           THEN pc' = "detect_help" /\ tx' = Append(tx, Legacy("HELP"))
           ELSE pc' = "detect_complete" /\ tx' = tx
  /\ ts' = ts
  /\ last' = Step("detect_ping", <<>>)
  /\ UNCHANGED <<in_message, ret, times, rx_used>>

\* Phase 5 sends AT while the profile is still unknown.
DetectHelp ==
  /\ pc = "detect_help"
  /\ IF app.firmware_type = FirmwareUnknown
     THEN pc' = "detect_at" /\ tx' = Append(tx, Legacy("AT"))
     ELSE pc' = "detect_complete" /\ tx' = tx
  /\ ts' = ts
  /\ last' = Step("detect_help", <<>>)
  /\ UNCHANGED <<app, in_message, ret, times, rx_used>>

\* A wait after AT that never ends.
DetectAtStalls ==
  /\ pc = "detect_at"
  /\ pc' = "detect_at"
  /\ ts' = ts
  /\ last' = Step("detect_at", <<>>)
  /\ UNCHANGED <<app, in_message, ret, times, tx, rx_used>>

\* The wait after AT.
DetectAt ==
  /\ pc = "detect_at"
  /\ pc' = "detect_complete"
  /\ ts' = ts
  /\ last' = Step("detect_at", <<>>)
  /\ UNCHANGED <<app, in_message, ret, times, tx, rx_used>>

\* detection_complete: attach the capability row and return.
DetectComplete ==
  /\ pc = "detect_complete"
  /\ app' = [app EXCEPT !.caps =
               IF app.firmware_type \in DOMAIN firmware_caps
               THEN firmware_caps[app.firmware_type]
               ELSE firmware_caps[FirmwareUnknown]]
  /\ pc' = ret
  /\ ret' = "idle"
  /\ ts' = ts
  /\ last' = Step("detect_complete", <<>>)
  /\ UNCHANGED <<in_message, times, tx, rx_used>>

\* do_scan up to the clear: connect if needed, detect if the profile is
\* unknown.
ScanStart ==
  /\ pc = "idle"
  /\ tx' = <<>>
  /\ IF ~app.connected \/ app.firmware_type = FirmwareUnknown
     THEN /\ app' = IF app.connected THEN app ELSE uart_init(app)
          /\ pc' = "detect_reset"
          /\ ret' = "scan_clear"
     ELSE /\ app' = app
          /\ pc' = "scan_clear"
          /\ ret' = ret
  /\ ts' = ts
  /\ last' = Step("scan_start", <<>>)
  /\ UNCHANGED <<in_message, times, rx_used>>

\* app->network_count = 0;
ScanClearNetworks ==
  /\ pc = "scan_clear"
  /\ app' = [app EXCEPT !.network_count = 0]
  /\ pc' = "scan_clear_clients"
  /\ ts' = ts
  /\ last' = Step("scan_clear_networks", <<>>)
  /\ UNCHANGED <<in_message, ret, times, tx, rx_used>>

\* app->network_count = 0 executed, without the mutex, while the receive
\* task is inside parse_network_message for the message `chunk`: the slot
\* networks[network_count] is already chosen and written, and the store
\* races with network_count++.  Either the increment had loaded the old
\* count and stores old + 1 over the 0 (lost), or it loads the 0 and stores
\* 1 although slot 0 was not written (~lost).
ScanClearDuringDecode(chunk, lost) ==
  /\ pc = "scan_clear"
  /\ app.uart_running
  /\ rx_used < MaxRxRescan
  /\ app.network_count < MAX_NETWORKS
  /\ LET r == uart_rx_bytes([app |-> app, in_message |-> in_message,
                             nul_at |-> -1], chunk, FALSE)
     IN /\ r.app.network_count = app.network_count + 1
        /\ app' = [r.app EXCEPT !.network_count = IF lost THEN @ ELSE 1]
        /\ in_message' = r.in_message
  /\ rx_used' = rx_used + 1
  /\ pc' = "scan_clear_clients"
  /\ ts' = ts
  /\ last' = Step("clear_during_decode", chunk)
  /\ UNCHANGED <<ret, times, tx>>

\* app->client_count = 0; the scan flags; the scan command.
ScanClearClients ==
  /\ pc = "scan_clear_clients"
  /\ app' = [app EXCEPT !.client_count = 0, !.scan_finished = FALSE,
                        !.scanning = TRUE]
  /\ tx' = IF app.firmware_type = FirmwareGattrose
           THEN tx \o <<Framed("r1"), Framed("s")>>
           ELSE Append(tx, Legacy("SCAN"))
  /\ times' = 0
  /\ pc' = "scan_wait"
  /\ ts' = ts
  /\ last' = Step("scan_clear_clients", <<>>)
  /\ UNCHANGED <<in_message, ret, rx_used>>

\* A wait loop without the counter: it ends on scan_finished only.
ScanPollUncounted ==
  /\ pc = "scan_wait"
  /\ IF ~app.scan_finished
     THEN /\ pc' = pc
          /\ tx' = tx
     ELSE /\ pc' = "scan_list"
          /\ tx' = Append(tx, IF app.firmware_type = FirmwareGattrose
                              THEN Framed("g") ELSE Legacy("LIST"))
  /\ ts' = ts
  /\ last' = Step("scan_poll", <<>>)
  /\ UNCHANGED <<app, in_message, ret, times, rx_used>>

\* One evaluation of the wait loop's condition: another 500 ms wait, or the
\* request for the network list.
ScanPoll ==
  /\ pc = "scan_wait"
  /\ IF ~app.scan_finished /\ times < SCAN_POLLS
     THEN /\ times' = times + 1
          /\ pc' = pc
          /\ tx' = tx
     ELSE /\ times' = times
          /\ pc' = "scan_list"
          /\ tx' = Append(tx, IF app.firmware_type = FirmwareGattrose
                              THEN Framed("g") ELSE Legacy("LIST"))
  /\ ts' = ts
  /\ last' = Step("scan_poll", <<>>)
  /\ UNCHANGED <<app, in_message, ret, rx_used>>

\* After the 1.5 s wait: request the client list if the profile detects
\* clients.
ScanRequestClients ==
  /\ pc = "scan_list"
  /\ tx' = IF app.caps.client_detection
           THEN Append(tx, IF app.firmware_type = FirmwareGattrose
                           THEN Framed("c") ELSE Legacy("CLIENTS"))
           ELSE tx
  /\ pc' = "scan_sort"
  /\ ts' = ts
  /\ last' = Step("scan_request_clients", <<>>)
  /\ UNCHANGED <<app, in_message, ret, times, rx_used>>

\* sort_networks and the end of do_scan.
ScanSort(oob) ==
  /\ pc = "scan_sort"
  /\ app' = [sort_networks(app, oob) EXCEPT !.scanning = FALSE]
  /\ tx' = IF app.firmware_type = FirmwareGattrose
           THEN Append(tx, Framed("r0,255,0")) ELSE tx
  /\ pc' = "idle"
  /\ times' = 0
  /\ ts' = ts
  /\ last' = Step("sort", <<>>)
  /\ UNCHANGED <<in_message, ret, rx_used>>

\* do_ble_scan
BleScan ==
  /\ pc = "idle"
  /\ app' = [(IF app.connected THEN app ELSE uart_init(app))
               EXCEPT !.ble_count = 0]
  /\ tx' = IF app.firmware_type = FirmwareGattrose
           THEN <<Framed("r2"), Framed("ls")>>
           ELSE <<Legacy("BLESCAN")>>
  /\ ts' = ts
  /\ last' = Step("ble_scan", <<>>)
  /\ UNCHANGED <<in_message, pc, ret, times, rx_used>>

\* The configuration commands with the reason ahead of the MAC.
send_attack_configReasonFirst ==
  <<Framed("REASON"), Framed("APMAC"), Framed("PORTAL")>>

\* send_attack_config: the three configuration commands of the legacy
\* attacks.  tx records which command is written and how it is framed; the
\* arguments (MAC, reason, portal, network id) are left out.
send_attack_config == <<Framed("APMAC"), Framed("REASON"), Framed("PORTAL")>>

\* do_deauth on the selected network: start the attack, or stop it if it is
\* running.
DoDeauth ==
  /\ pc = "idle"
  /\ app.connected
  /\ app.selected_network >= 0
  /\ app.selected_network < app.network_count
  /\ LET idx == app.selected_network
         active == app.networks[idx].deauth_active
     IN /\ tx' = IF active
                 THEN IF app.firmware_type = FirmwareGattrose
                      THEN <<Framed("ds"), Framed("r0,255,0")>>
                      ELSE <<Legacy("STOP")>>
                 ELSE IF app.firmware_type = FirmwareGattrose
                      THEN <<Framed("r3"), Framed("d")>>
                      ELSE Append(send_attack_config, Legacy("DEAUTH"))
        /\ app' = [app EXCEPT !.networks[idx].deauth_active = ~active]
  /\ ts' = ts
  /\ last' = Step("do_deauth", <<>>)
  /\ UNCHANGED <<in_message, pc, ret, times, rx_used>>

\* A callback that sends the legacy command whatever the capability set.
ClientListCallbackUngated(index, oob) ==
  /\ pc = "idle"
  /\ LET sel == app.selected_network
         net == app.networks[sel]
         ci  == ReadClientIndex(net, index, oob)
         found == /\ sel >= 0 /\ sel < app.network_count
                  /\ index < net.client_count
                  /\ ci >= 0 /\ ci < app.client_count
         sent == IF ~found THEN <<>>
                 ELSE IF app.firmware_type = FirmwareGattrose
                 THEN <<Framed("d")>>
                 ELSE IF TRUE
                 THEN <<Legacy("DEAUTH")>>
                 ELSE <<>>
     IN /\ tx' = sent
        /\ app' = IF sent = <<>> THEN app
                  ELSE [app EXCEPT !.networks[sel].deauth_active = TRUE]
  /\ ts' = ts
  /\ last' = Step("client_list", <<index>>)
  /\ UNCHANGED <<in_message, pc, ret, times, rx_used>>

\* client_list_callback: a targeted deauth of entry `index` of the selected
\* network's client list.  client_indices[index] is read for any index
\* below the network's client_count, which may leave the array (oob).
ClientListCallback(index, oob) ==
  /\ pc = "idle"
  /\ LET sel == app.selected_network
         net == app.networks[sel]
         ci  == ReadClientIndex(net, index, oob)
         found == /\ sel >= 0 /\ sel < app.network_count
                  /\ index < net.client_count
                  /\ ci >= 0 /\ ci < app.client_count
         sent == IF ~found THEN <<>>
                 ELSE IF app.firmware_type = FirmwareGattrose
                 THEN <<Framed("d")>>
                 ELSE IF app.caps.targeted_deauth
                 THEN <<Legacy("DEAUTH")>>
                 ELSE <<>>
     IN /\ tx' = sent
        /\ app' = IF sent = <<>> THEN app
                  ELSE [app EXCEPT !.networks[sel].deauth_active = TRUE]
  /\ ts' = ts
  /\ last' = Step("client_list", <<index>>)
  /\ UNCHANGED <<in_message, pc, ret, times, rx_used>>

\* do_beacon as called from the beacon menu: type 1 is random names, type 2
\* the fixed list.
DoBeacon(type) ==
  /\ pc = "idle"
  /\ app' = IF app.connected THEN app ELSE uart_init(app)
  /\ tx' = IF app.firmware_type = FirmwareGattrose
           THEN IF type = 1 THEN <<Framed("br")>> ELSE <<Framed("bk")>>
           ELSE IF type = 1 THEN <<Legacy("RANDOM")>>
                ELSE <<Legacy("RICKROLL")>>
  /\ ts' = ts
  /\ last' = Step("do_beacon", <<>>)
  /\ UNCHANGED <<in_message, pc, ret, times, rx_used>>

\* The BLE spam entries of the BLE menu, which the main menu opens only
\* while the capability set has ble_scan.
BleSpam(kind) ==
  /\ pc = "idle"
  /\ app.caps.ble_scan
  /\ app' = IF app.connected THEN app ELSE uart_init(app)
  /\ tx' = <<Framed(kind)>>
  /\ ts' = ts
  /\ last' = Step("ble_spam", <<>>)
  /\ UNCHANGED <<in_message, pc, ret, times, rx_used>>

\* do_create_ap for an open access point: empty the credential log, then
\* configure and start the access point.
DoCreateAp ==
  /\ pc = "idle"
  /\ app' = [(IF app.connected THEN app ELSE uart_init(app))
               EXCEPT !.credentials = <<>>]
  /\ tx' = IF app.firmware_type = FirmwareGattrose
           THEN <<Framed("r3"), Framed("a"), Framed("w")>>
           ELSE <<Legacy("APMAC"), Legacy("CHANNEL"), Legacy("PORTAL"),
                  Legacy("APSTART")>>
  /\ ts' = ts
  /\ last' = Step("do_create_ap", <<>>)
  /\ UNCHANGED <<in_message, pc, ret, times, rx_used>>

\* advanced_menu_callback: each entry toggles its flag and writes the
\* matching command, always STX/ETX-framed; RogueBase only writes.
AdvancedMenu(index) ==
  /\ pc = "idle"
  /\ LET a == IF app.connected THEN app ELSE uart_init(app)
     IN CASE index = "Jammer" ->
               /\ app' = [a EXCEPT !.jammer_active = ~@]
               /\ tx' = IF a.jammer_active
                        THEN <<Framed("J0"), Framed("r0,255,0")>>
                        ELSE <<Framed("J1"), Framed("r3")>>
          [] index = "ProbeLog" ->
               /\ app' = [a EXCEPT !.probe_log_active = ~@]
               /\ tx' = IF a.probe_log_active
                        THEN <<Framed("P0")>> ELSE <<Framed("P1")>>
          [] index = "Karma" ->
               /\ app' = [a EXCEPT !.karma_active = ~@]
               /\ tx' = IF a.karma_active
                        THEN <<Framed("K0"), Framed("r0,255,0")>>
                        ELSE <<Framed("K1"), Framed("r3")>>
          [] index = "PMKID" ->
               /\ app' = [a EXCEPT !.pmkid_capture_active = ~@]
               /\ tx' = IF a.pmkid_capture_active
                        THEN <<Framed("hg"), Framed("h0")>>
                        ELSE <<Framed("h1")>>
          [] index = "Handshake" ->
               /\ app' = [a EXCEPT !.handshake_capture_active = ~@]
               /\ tx' = IF a.handshake_capture_active
                        THEN <<Framed("Hg"), Framed("H0")>>
                        ELSE <<Framed("H1")>>
          [] index = "RogueBase" ->
               /\ app' = a
               /\ tx' = <<Framed("R1")>>
          [] index = "RogueMon" ->
               /\ app' = [a EXCEPT !.rogue_monitor_active = ~@]
               /\ tx' = IF a.rogue_monitor_active
                        THEN <<Framed("R0")>> ELSE <<Framed("R2")>>
  /\ ts' = ts
  /\ last' = Step("advanced_menu", <<>>)
  /\ UNCHANGED <<in_message, pc, ret, times, rx_used>>

\* A stop that leaves the advanced-attack flags alone.
DoStopAllBasic ==
  /\ pc = "idle"
  /\ tx' = IF ~app.connected THEN <<>>
           ELSE IF app.firmware_type = FirmwareGattrose
           THEN <<Framed("x")>>
           ELSE <<Legacy("STOP")>>
  /\ app' = [app EXCEPT
               !.monitor_active = FALSE,
               !.networks = [i \in 0..(MAX_NETWORKS - 1) |->
                               IF i < app.network_count
                               THEN [app.networks[i] EXCEPT
                                       !.deauth_active = FALSE]
                               ELSE app.networks[i]]]
  /\ ts' = ts
  /\ last' = Step("do_stop_all", <<>>)
  /\ UNCHANGED <<in_message, pc, ret, times, rx_used>>

\* do_stop_all: write the stop command if connected, then clear every
\* attack flag.
DoStopAll ==
  /\ pc = "idle"
  /\ tx' = IF ~app.connected THEN <<>>
           ELSE IF app.firmware_type = FirmwareGattrose
           THEN <<Framed("x")>>
           ELSE <<Legacy("STOP")>>
  /\ app' = [app EXCEPT
               !.monitor_active = FALSE,
               !.jammer_active = FALSE, !.probe_log_active = FALSE,
               !.karma_active = FALSE, !.pmkid_capture_active = FALSE,
               !.handshake_capture_active = FALSE,
               !.rogue_monitor_active = FALSE,
               !.networks = [i \in 0..(MAX_NETWORKS - 1) |->
                               IF i < app.network_count
                               THEN [app.networks[i] EXCEPT
                                       !.deauth_active = FALSE]
                               ELSE app.networks[i]]]
  /\ ts' = ts
  /\ last' = Step("do_stop_all", <<>>)
  /\ UNCHANGED <<in_message, pc, ret, times, rx_used>>

\* Console entry "Detect Firmware": detect_firmware on demand.
Redetect ==
  /\ pc = "idle"
  /\ pc' = "detect_reset"
  /\ ret' = "idle"
  /\ tx' = <<>>
  /\ ts' = ts
  /\ last' = Step("redetect", <<>>)
  /\ UNCHANGED <<app, in_message, times, rx_used>>

Detect ==
  \/ DetectReset \/ DetectBoot \/ DetectModern \/ DetectInfo
  \/ DetectPing \/ DetectHelp \/ DetectAt \/ DetectComplete

Scan ==
  \/ ScanStart \/ ScanClearNetworks \/ ScanClearClients \/ ScanPoll
  \/ ScanRequestClients


(***************************************************************************)
(* Inputs                                                                  *)
(***************************************************************************)
\* A binary frame around a body (tag byte then fields).
Frame(body) == <<PROTO_STX>> \o body \o <<PROTO_ETX>>

\* A body written with | for the field separator, as sent on the wire.
Wire(s) == ReplaceByte(Bytes(s), PIPE, PROTO_SEP)

\* A legacy line.
Line(s) == Bytes(s) \o <<LF>>

\* Three decimal digits of i.
Dec3(i) ==
  <<48 + ((i \div 100) % 10), 48 + ((i \div 10) % 10), 48 + (i % 10)>>

\* The runs of bytes the peripheral sends.  Network bodies are
\* id|ssid|bssid|channel|rssi|band|clients|security|pmf|hidden, client
\* bodies owner|mac|rssi; the legacy lines are AP:... and CLIENT:/STA:....
Chunk ==
  [NetA      |-> Frame(Wire("n7|Alpha|AA:BB:CC:DD:EE:01|1|-60|2|0|WPA2-AES|0|0")),
   NetB      |-> Frame(Wire("n3|Beta|AA:BB:CC:DD:EE:02|6|-40|2|17|WPA2-AES|0|0")),
   NetNeg    |-> Frame(Wire("n7|Neg|AA:BB:CC:DD:EE:05|11|-70|2|-1|WPA2-AES|0|0")),
   NetFive   |-> Frame(Wire("n5|Gamma|AA:BB:CC:DD:EE:03|36|-30")),
   NetShort  |-> Frame(Wire("n9|Delta|AA:BB:CC:DD:EE:04|11")),
   NetSeven  |-> Frame(Wire("n6|Eps|AA:BB:CC:DD:EE:05|40|-50|5|2")),
   LedOff    |-> Frame(Bytes("rLED_OFF")),
   LedColor  |-> Frame(Bytes("rLED:0,255,0")),
   ReadyBare |-> Frame(Bytes("r")),
   ReadyNoLed |-> Frame(Bytes("rNO-LED:1")),
   NetBare   |-> Frame(Wire("n7")),
   LegacyAp  |-> Line("AP:1:TestNet:11:22:33:44:55:66:6:1049600:-55"),
   CliA      |-> Frame(Wire("c0|02:00:00:00:00:01|-50")),
   CliBad    |-> Frame(Wire("c5|02:00:00:00:00:02|-61")),
   CliNeg    |-> Frame(Wire("c-1|02:00:00:00:00:03|-62")),
   LegCli    |-> Line("CLIENT:7:STA3:-66"),
   LegCliBad |-> Line("STA:99:STA4:-70"),
   NetMyAP   |-> Frame(Wire("n3|MyAP|AA:BB:CC:DD:EE:FF|6|-42|2|0|WPA2-AES|0|0")),
   CliSta    |-> Frame(Wire("c0|STA3|-40")),
   LegCliMac |-> Line("CLIENT:7:02:00:00:00:00:01:-50"),
   ScanDone  |-> Frame(Bytes("sDONE:3")),
   Scanning  |-> Frame(Bytes("sSCANNING")),
   MonitorOn |-> Frame(Bytes("mON")),
   MonitorOff |-> Frame(Bytes("mOFF")),
   DeauthAck |-> Frame(Bytes("dDEAUTH:7")),
   StopAll   |-> Frame(Bytes("x")),
   CredBig   |-> Frame(<<Tag.C>> \o [i \in 1..249 |-> 65]),
   CredSmall |-> Frame(Wire("Calice|pw1")),
   CredLine  |-> Line("EV:bob:hunter"),
   StxDiscards |-> Bytes("SCAN:OK") \o <<PROTO_STX, PROTO_ETX, LF>>,
   StxRestarts |-> <<PROTO_STX>> \o Bytes("sDONE:3") \o <<PROTO_STX>>
                     \o Bytes("mON") \o <<PROTO_ETX>>,
   CredLong  |-> Frame(<<Tag.C>> \o [i \in 1..300 |-> 65]),
   PartFrame |-> <<PROTO_STX>> \o Bytes("sDONE:3"),
   PartLine  |-> Bytes("PO"),
   LineRest  |-> Bytes("NG") \o <<CR, LF>>,
   PongCr    |-> Bytes("PONG") \o <<CR, LF>>,
   ap_body   |-> Wire("1|TestNet|11:22:33:44:55:66|6|-55"),
   net_tail  |-> Wire("|N|B|1|-70"),
   cli_head  |-> Wire("c0|02:00:00:00:0"),
   ble_head  |-> Wire("lC0:00:00:00:0")]

\* Binary network frame number i: n<i>|N|B|1|-70.
NetFrame(i) == Frame(<<Tag.n>> \o Dec3(i) \o Chunk.net_tail)

\* Binary client frame number i for the network at position 0, each with
\* a MAC of its own: c0|02:00:00:00:0h:tu.
CliFrame(i) ==
  Frame(Chunk.cli_head \o <<48 + ((i \div 100) % 10), COLON,
                            48 + ((i \div 10) % 10), 48 + (i % 10)>>)

\* BLE device frame number i: lC0:00:00:00:0h:tu.
BleFrame(i) ==
  Frame(Chunk.ble_head \o <<48 + ((i \div 100) % 10), COLON,
                            48 + ((i \div 10) % 10), 48 + (i % 10)>>)

\* Frame number i of a kind, the kind named by its tag.
TagFrame(tag, i) ==
  IF tag = Tag.n THEN NetFrame(i)
  ELSE IF tag = Tag.c THEN CliFrame(i)
  ELSE BleFrame(i)

RECURSIVE Burst(_, _, _)
\* The frames lo .. hi of a kind back to back.
Burst(tag, lo, hi) ==
  IF lo > hi THEN <<>>
  ELSE IF lo = hi THEN TagFrame(tag, lo)
  ELSE LET m == (lo + hi) \div 2
       IN Burst(tag, lo, m) \o Burst(tag, m + 1, hi)

\* One more client than a network's list holds.
Cli17 == Burst(Tag.c, 1, MAX_CLIENTS_PER_AP + 1)

\* The reply to a list request from a crowded site: one network and one
\* client more than the collections hold.
InventoryDump ==
  Burst(Tag.n, 1, MAX_NETWORKS + 1) \o Burst(Tag.c, 1, MAX_CLIENTS + 1)

\* The reply to a BLE scan: one device more than the collection holds.
BleDump == Burst(Tag.l, 1, MAX_BLE_DEVICES + 1)

\* A buffer's worth of plain bytes.
Fill255 == [i \in 1..(RX_LINE_SIZE - 1) |-> 65]

NetworkChunks ==
  {Chunk.NetA, Chunk.NetB, Chunk.NetNeg, Chunk.NetFive, Chunk.NetShort,
   Chunk.LegacyAp}

ClientChunks ==
  {Chunk.CliA, Chunk.CliBad, Chunk.CliNeg, Chunk.LegCli, Chunk.LegCliBad, Cli17}

InventoryChunks == NetworkChunks \union ClientChunks

\* Single bytes: the framing bytes, the line ends, tab, a letter, a control
\* byte and a byte above 127.
FramerBytes == {PROTO_STX, PROTO_ETX, LF, CR, TAB, 65, 1, 200}

FramerChunks == {<<b>> : b \in FramerBytes} \union {Fill255}

\* Values an out-of-bounds read of client_indices may yield.
OobReadValues == {-1, 0}

\* Which of the two unsequenced stores of the legacy link step lands last
\* matters to a legacy client line only.
StoreOrders(c) ==
  IF c \in {Chunk.LegCli, Chunk.LegCliBad} THEN BOOLEAN ELSE {FALSE}

\* The list request of do_scan, or the scan command of do_ble_scan, is the
\* last operation's output.
Requested(cmds) == \E k \in 1..Len(tx) : tx[k].cmd \in cmds

(***************************************************************************)
(* Specifications                                                          *)
(***************************************************************************)
RxInventory ==
  \E c \in InventoryChunks : \E w \in StoreOrders(c) : Rx(c, w, MaxRx)

Sort == \E oob \in OobReadValues : ScanSort(oob)

\* The control path against a peripheral that reports networks and clients
\* one message (or one short burst) at a time, at any moment.
Next == Startup \/ Detect \/ Scan \/ Sort \/ BleScan \/ RxInventory

Spec == Init /\ [][Next]_vars

CapacityChunks == {Chunk.NetA, Chunk.LegacyAp, Chunk.NetNeg, Chunk.LegCli}

RxOneMessage ==
  \E c \in CapacityChunks : \E w \in StoreOrders(c) : Rx(c, w, MaxRxCap)

RxInventoryDump ==
  /\ Requested({"g", "LIST"})
  /\ Rx(InventoryDump, FALSE, MaxRxCap)

RxBleDump ==
  /\ Requested({"ls", "BLESCAN"})
  /\ Rx(BleDump, FALSE, MaxRxCap)

\* The control path against a peripheral that answers the list requests
\* with more entries than the collections hold.
NextCapacity ==
  \/ Startup \/ Detect \/ Scan \/ Sort \/ BleScan
  \/ RxOneMessage \/ RxInventoryDump \/ RxBleDump

SpecCapacity == Init /\ [][NextCapacity]_vars

RxFramer == \E c \in FramerChunks : Rx(c, FALSE, MaxRxFramer)

\* The receive task alone, fed byte by byte.
NextFramer == Startup \/ RxFramer

SpecFramer == Init /\ [][NextFramer]_vars

\* What a peripheral answers to the probes of detect_firmware: the boot
\* banner, the reply to the modern info command, legacy INFO replies with
\* and without a vendor token, the PING acknowledgement, a HELP reply with
\* command keywords, a foreign banner, and the replies of an AT modem.
Reply ==
  [Banner       |-> Frame(Bytes("rGATTROSE-NG:2.0")),
   ModernInfo   |-> Frame(Bytes("iV:2.1|N:64|C:8|CH:6|D:2|B:1|W:0|BLE:0")),
   InfoGattrose |-> Line("INFO:Gattrose v2.0"),
   InfoEvil     |-> Line("INFO:Evil-BW16"),
   InfoPlain    |-> Line("INFO:ready"),
   Pong         |-> Line("PONG"),
   Help         |-> Line("HELP:SCAN,LIST,CLIENTS,BLESCAN"),
   Foreign      |-> Line("ESP32 Marauder v0.13"),
   Ok           |-> Line("OK"),
   AtError      |-> Line("+CME ERROR")]

\* The replies, and one network message for the attacks to aim at.
DetectChunks == {Reply[k] : k \in DOMAIN Reply} \union {Chunk.NetA}

RxDetect == \E c \in DetectChunks : Rx(c, FALSE, MaxRxDetect)

\* Detection and the attacks: startup, re-detection on demand, the
\* peripheral's replies at any moment, and the attack operations of the
\* menus.
NextDetect ==
  \/ Startup
  \/ Detect
  \/ Redetect
  \/ RxDetect
  \/ DoDeauth
  \/ \E type \in {1, 2} : DoBeacon(type)
  \/ \E kind \in {"lp4", "lp1"} : BleSpam(kind)

SpecDetect == Init /\ [][NextDetect]_vars

\* detect_firmware is straight-line code between bounded delays, so a run
\* that has started keeps taking its steps.
SpecDetectLive == Init /\ [][NextDetect]_vars /\ WF_vars(Detect)

\* The client list: detection, a network, a client of it, a boot banner and
\* a foreign banner at any moment, and a press on the first or the second
\* entry of the selected network's client list.
NextTarget ==
  \/ Startup
  \/ Detect
  \/ \E c \in {Reply.Banner, Reply.Foreign, Chunk.NetA, Chunk.CliA} :
        Rx(c, FALSE, MaxRxTarget)
  \/ \E index \in {0, 1} : \E oob \in OobReadValues :
        ClientListCallback(index, oob)

SpecTarget == Init /\ [][NextTarget]_vars

\* Scans one after the other, with network messages and the boot banner
\* arriving at any moment, also while do_scan clears the collection, and no
\* report of scan completion.
NextRescan ==
  \/ Startup
  \/ Detect
  \/ Scan
  \/ Sort
  \/ \E c \in {Chunk.NetA, Chunk.NetB, Reply.Banner} :
        Rx(c, FALSE, MaxRxRescan)
  \/ \E c \in {Chunk.NetA, Chunk.NetB} : \E lost \in BOOLEAN :
        ScanClearDuringDecode(c, lost)

SpecRescan == Init /\ [][NextRescan]_vars

\* do_scan and detect_firmware are straight-line code and a counted loop
\* between bounded delays: an operation that has started keeps taking its
\* steps.  Starting a scan is the user's choice and is not forced.
SpecRescanLive ==
  /\ Init
  /\ [][NextRescan]_vars
  /\ WF_vars(Detect \/ ScanClearNetworks \/ ScanClearClients \/ ScanPoll
               \/ ScanRequestClients \/ Sort)

\* The r messages: LED replies, the boot banner, an empty r message and one
\* with LED inside its body, and a legacy INFO line that names another
\* firmware, at any moment of detection and after it.
NextReady ==
  \/ Startup
  \/ Detect
  \/ \E c \in {Chunk.LedOff, Chunk.LedColor, Chunk.ReadyBare,
                Chunk.ReadyNoLed, Reply.Banner, Reply.InfoEvil} :
        Rx(c, FALSE, MaxRxReady)

SpecReady == Init /\ [][NextReady]_vars

\* Attacks and their stop: a network and a client of it, the deauth button,
\* three entries of the advanced menu, a monitor-on status, the stop entry
\* of the menu and the peripheral's stop confirmation.
NextStop ==
  \/ Startup
  \/ Detect
  \/ DoDeauth
  \/ \E index \in {"Jammer", "PMKID", "RogueMon", "RogueBase"} :
        AdvancedMenu(index)
  \/ DoStopAll
  \/ \E c \in {Chunk.NetA, Chunk.CliA, Chunk.MonitorOn, Chunk.StopAll} :
        Rx(c, FALSE, MaxRxStop)

SpecStop == Init /\ [][NextStop]_vars

\* An attack session: detection, the deauth button, and the peripheral's
\* status messages and one network message at any moment.
NextSession ==
  \/ Startup
  \/ Detect
  \/ DoDeauth
  \/ \E c \in {Chunk.NetA, Chunk.ScanDone, Chunk.Scanning, Chunk.MonitorOn,
                Chunk.MonitorOff, Chunk.DeauthAck, Chunk.StopAll} :
        Rx(c, FALSE, MaxRxSession)

SpecSession == Init /\ [][NextSession]_vars

\* A portal session: detection, the start of an access point, and captured
\* credentials, framed and legacy, at any moment.  Two of the long
\* credentials leave room for nine more bytes.
NextPortal ==
  \/ Startup
  \/ Detect
  \/ DoCreateAp
  \/ \E c \in {Chunk.CredBig, Chunk.CredSmall, Chunk.CredLine} :
        Rx(c, FALSE, MaxRxPortal)

SpecPortal == Init /\ [][NextPortal]_vars

\* The framer with its decoders: single bytes, partial lines and frames,
\* and runs that mix the two modes.
NextFraming ==
  \/ Startup
  \/ \E c \in FramerChunks \union
               {Chunk.StxDiscards, Chunk.StxRestarts, Chunk.ScanDone,
                Chunk.CredLong, Chunk.PartFrame, Chunk.PartLine,
                Chunk.LineRest, Chunk.PongCr} :
        Rx(c, FALSE, MaxRxFraming)

SpecFraming == Init /\ [][NextFraming]_vars

\* The tokenizer alone: token_init on any buffer of at most MaxTokenLen
\* bytes drawn from a letter and the two separators the decoders use, with
\* either separator as the delimiter, then successive token_next calls.
InitToken ==
  /\ app = AppInit
  /\ in_message = FALSE
  /\ pc = "boot"
  /\ ret = "idle"
  /\ times = 0
  /\ tx = <<>>
  /\ rx_used = 0
  /\ last = [op |-> "init", chunk |-> <<>>, pre |-> Pre(AppInit),
             nul_at |-> -1, heard |-> {}]
  /\ \E n \in 0..MaxTokenLen :
       \E buffer \in [1..n -> {Code("A"), PIPE, PROTO_SEP}] :
         \E delim \in {PIPE, PROTO_SEP} :
           ts = TokenStart(buffer, delim)

\* One call of token_next on the tokenizer's state; what it returned is
\* appended to ts.returned.
TokenCall ==
  /\ Len(ts.returned) < MaxTokenLen + 2
  /\ LET r == token_next(ts.state, ts.delim)
     IN ts' = [ts EXCEPT !.state = r.st,
                         !.returned = Append(@, [found |-> r.found,
                                                 tok |-> r.tok])]
  /\ UNCHANGED <<app, in_message, pc, ret, times, tx, rx_used, last>>

\* Network messages with all, some or none of the trailing fields, and
\* with fewer than the five leading ones, on a started transport.
NextNetwork ==
  \/ Startup
  \/ \E c \in {Chunk.NetA, Chunk.NetFive, Chunk.NetSeven, Chunk.NetShort,
                Chunk.NetBare} :
        Rx(c, FALSE, MaxRxNetwork)

SpecNetwork == Init /\ [][NextNetwork]_vars

SpecToken == InitToken /\ [][TokenCall]_vars

\* The sort alone: do_scan stands before sort_networks with a collection of
\* at most MaxSortLen networks, as decoded from network messages whose
\* signal is one of two values and whose client count is negative, zero or
\* positive.  The id of a network is its position before the sort.
InitSort ==
  /\ in_message = FALSE
  /\ pc = "scan_sort"
  /\ ret = "idle"
  /\ times = 0
  /\ tx = <<>>
  /\ rx_used = 0
  /\ last = [op |-> "init", chunk |-> <<>>, pre |-> Pre(AppInit),
             nul_at |-> -1, heard |-> {}]
  /\ ts = TokenStart(<<>>, PIPE)
  /\ \E n \in 0..MaxSortLen :
       \E rssi \in [0..(n - 1) -> {-60, -30}] :
         \E count \in [0..(n - 1) -> {-1, 0, 2}] :
           app = [AppInit EXCEPT
                    !.connected = TRUE, !.uart_running = TRUE,
                    !.detection_done = TRUE,
                    !.caps = firmware_caps[FirmwareUnknown],
                    !.scanning = TRUE,
                    !.network_count = n,
                    !.networks =
                      [i \in 0..(MAX_NETWORKS - 1) |->
                         IF i < n
                         THEN [NetworkZero EXCEPT
                                 !.id = i, !.rssi = rssi[i],
                                 !.client_count = count[i],
                                 !.client_indices = Unlinked]
                         ELSE NetworkZero]]

SpecSort == InitSort /\ [][Sort]_vars

\* The decoders alone: whole messages on a connected transport, no
\* operation running.
DecodeChunks ==
  {Chunk.NetMyAP, Chunk.NetA, Chunk.LegacyAp, Chunk.CliA, Chunk.CliSta,
   Chunk.LegCli, Chunk.LegCliMac}

RxDecode ==
  \E c \in DecodeChunks : \E w \in StoreOrders(c) : Rx(c, w, MaxRxDecode)

NextDecode == Startup \/ RxDecode

SpecDecode == Init /\ [][NextDecode]_vars

(***************************************************************************)
(* Properties                                                              *)
(***************************************************************************)
\* The positions of a client_indices list that hold a client.
Occupied(net) ==
  {k \in 0..(MAX_CLIENTS_PER_AP - 1) : net.client_indices[k] >= 0}

\* C1: in every reachable state the three counts lie between 0 and the
\* capacity of their collection (64 networks, 128 clients, 32 BLE devices).
C1_CountsBounded ==
  /\ app.network_count \in 0..MAX_NETWORKS
  /\ app.client_count \in 0..MAX_CLIENTS
  /\ app.ble_count \in 0..MAX_BLE_DEVICES

\* All three collections are full after the peripheral sent one entry more
\* than each holds.
C1_Witness ==
  /\ last.op = "rx"
  /\ app.network_count = MAX_NETWORKS
  /\ app.client_count = MAX_CLIENTS
  /\ app.ble_count = MAX_BLE_DEVICES

\* A byte the framer stores in the given mode when it has room.
Storable(b, framed) ==
  /\ b # PROTO_STX
  /\ IF framed THEN b # PROTO_ETX ELSE b >= 32 \/ b = TAB

\* C2: after every step rx_pos is in 0..255 and the terminator, when the
\* step stored one, went to an index in 0..255; a storable byte that
\* arrives while rx_pos is 255 leaves the buffer and the mode as they were.
C2_FramerInBounds ==
  [][/\ app'.rx_pos \in 0..(RX_LINE_SIZE - 1)
     /\ last'.nul_at \in (-1)..(RX_LINE_SIZE - 1)
     /\ (/\ last'.op = "rx"
         /\ app.rx_pos = RX_LINE_SIZE - 1
         /\ Len(last'.chunk) = 1
         /\ Storable(last'.chunk[1], in_message))
        => /\ app'.rx_pos = app.rx_pos
           /\ app'.rx_line = app.rx_line
           /\ in_message' = in_message]_vars

\* A letter arrived inside a frame whose buffer was full, and was dropped.
C2_Witness ==
  /\ last.op = "rx"
  /\ last.chunk = <<65>>
  /\ in_message
  /\ last.pre.rx_pos = RX_LINE_SIZE - 1
  /\ app.rx_pos = RX_LINE_SIZE - 1

\* C3: every network of the collection has a client_count in 0..16.
C3_ClientCountInRange ==
  \A i \in 0..(app.network_count - 1) :
     app.networks[i].client_count \in 0..MAX_CLIENTS_PER_AP

\* C4: every network's client_count is the number of occupied entries of
\* its client_indices list.
C4_CountIsOccupancy ==
  \A i \in 0..(app.network_count - 1) :
     app.networks[i].client_count = Cardinality(Occupied(app.networks[i]))

\* C5: in every network of the collection the occupied entries of
\* client_indices are pairwise distinct positions of the live clients.
C5_IndicesLiveAndDistinct ==
  \A i \in 0..(app.network_count - 1) :
     LET ci == app.networks[i].client_indices
     IN \A k \in Occupied(app.networks[i]) :
          /\ ci[k] \in 0..(app.client_count - 1)
          /\ \A m \in Occupied(app.networks[i]) : m # k => ci[m] # ci[k]

\* C6: after sort_networks every client's ap_index is the position of a
\* network of the collection whose client_indices list holds the client.
C6_LinksAfterSort ==
  last.op = "sort" =>
    \A c \in 0..(app.client_count - 1) :
       LET n == app.clients[c].ap_index
       IN /\ n \in 0..(app.network_count - 1)
          /\ \E k \in 0..(MAX_CLIENTS_PER_AP - 1) :
               app.networks[n].client_indices[k] = c

\* C7: after sort_networks a network with a linked client stands before
\* every network with none, and of two networks of the same kind the one
\* with the greater rssi stands first.
C7_RankedAfterSort ==
  last.op = "sort" =>
    \A i, j \in 0..(app.network_count - 1) :
       LET linked_i == Occupied(app.networks[i]) # {}
           linked_j == Occupied(app.networks[j]) # {}
       IN /\ (linked_i /\ ~linked_j) => i < j
          /\ (linked_i = linked_j
              /\ app.networks[i].rssi > app.networks[j].rssi) => i < j

\* A binary network frame with at least five fields, the fifth not empty,
\* that fits the decoder's 127 bytes.
ValidNetworkFrame(c) ==
  /\ Len(c) >= 3
  /\ c[1] = PROTO_STX /\ c[2] = Tag.n /\ c[Len(c)] = PROTO_ETX
  /\ LET body == SubSeq(c, 3, Len(c) - 1)
         seps == {k \in 1..Len(body) : body[k] = PROTO_SEP}
     IN /\ Len(body) <= 127
        /\ \A k \in 1..Len(body) :
             body[k] \notin {0, PROTO_STX, PROTO_ETX, PIPE}
        /\ \E k \in 1..Len(body) :
             /\ body[k] # PROTO_SEP
             /\ Cardinality({j \in seps : j < k}) = 4

\* C8: a valid binary network frame received while network_count < 64
\* raises network_count by one, and the entries of the new network's
\* client_indices are all -1.
C8_ValidNetworkAdded ==
  [][(/\ last'.op = "rx"
      /\ ValidNetworkFrame(last'.chunk)
      /\ app.network_count < MAX_NETWORKS)
     => /\ app'.network_count = app.network_count + 1
        /\ \A k \in 0..(MAX_CLIENTS_PER_AP - 1) :
             app'.networks[app.network_count].client_indices[k] = -1]_vars

\* The five-field frame was received and added.
C8_Witness ==
  /\ last.op = "rx"
  /\ last.chunk = Chunk.NetFive
  /\ app.network_count = last.pre.network_count + 1
  /\ \A k \in 0..(MAX_CLIENTS_PER_AP - 1) :
       app.networks[last.pre.network_count].client_indices[k] = -1

\* C9: a network message (binary or legacy) received while network_count
\* is 64 leaves network_count and all 64 networks as they were.
C9_FullInventoryKept ==
  [][(/\ last'.op = "rx"
      /\ last'.chunk \in {Chunk.NetA, Chunk.NetNeg, Chunk.LegacyAp}
      /\ app.network_count = MAX_NETWORKS)
     => /\ app'.network_count = MAX_NETWORKS
        /\ \A i \in 0..(MAX_NETWORKS - 1) :
             app'.networks[i] = app.networks[i]]_vars

\* The legacy AP line arrived when the collection held 64 networks.
C9_Witness ==
  /\ last.op = "rx"
  /\ last.chunk = Chunk.LegacyAp
  /\ last.pre.network_count = MAX_NETWORKS
  /\ app.network_count = MAX_NETWORKS

\* The client messages of Chunk whose owner is not a network of the
\* collection: index 5 when there are at most five networks, index -1, and
\* id 99 when no network has that id.
InvalidOwner(c) ==
  \/ c = Chunk.CliBad /\ app.network_count <= 5
  \/ c = Chunk.CliNeg
  \/ /\ c = Chunk.LegCliBad
     /\ \A i \in 0..(app.network_count - 1) : app.networks[i].id # 99

\* C10: a client message with an invalid owner leaves client_count and
\* every network's client_indices and client_count as they were.
C10_InvalidOwnerIgnored ==
  [][(last'.op = "rx" /\ InvalidOwner(last'.chunk))
     => /\ app'.client_count = app.client_count
        /\ \A i \in 0..(MAX_NETWORKS - 1) :
             /\ app'.networks[i].client_indices
                  = app.networks[i].client_indices
             /\ app'.networks[i].client_count
                  = app.networks[i].client_count]_vars

\* A client frame naming index 5 arrived when the collection held between
\* one and five networks.
C10_Witness ==
  /\ last.op = "rx"
  /\ last.chunk = Chunk.CliBad
  /\ last.pre.network_count \in 1..5
  /\ app.client_count = last.pre.client_count

\* The MAC a client message of Chunk carries, <<>> for other input.
MacOf(c) ==
  IF c \in {Chunk.CliA, Chunk.LegCliMac} THEN Bytes("02:00:00:00:00:01")
  ELSE IF c \in {Chunk.CliSta, Chunk.LegCli} THEN Bytes("STA3")
  ELSE <<>>

\* C11: a client message whose MAC is the MAC of a client already in the
\* collection leaves client_count and every network's client_indices list
\* as they were, in either dialect.
C11_DuplicateMacIgnored ==
  [][(/\ last'.op = "rx"
      /\ MacOf(last'.chunk) # <<>>
      /\ \E i \in 0..(app.client_count - 1) :
           app.clients[i].mac = MacOf(last'.chunk))
     => /\ app'.client_count = app.client_count
        /\ \A n \in 0..(MAX_NETWORKS - 1) :
             app'.networks[n].client_indices
               = app.networks[n].client_indices]_vars

\* C12: the example frame received on an empty inventory yields exactly
\* one network, with the fields the example lists.
C12_ExampleFrameDecoded ==
  [][(/\ last'.op = "rx"
      /\ last'.chunk = Chunk.NetMyAP
      /\ app.network_count = 0)
     => /\ app'.network_count = 1
        /\ app'.networks[0].id = 3
        /\ app'.networks[0].ssid = Bytes("MyAP")
        /\ app'.networks[0].bssid = Bytes("AA:BB:CC:DD:EE:FF")
        /\ app'.networks[0].channel = 6
        /\ app'.networks[0].rssi = -42
        /\ app'.networks[0].is_5ghz = FALSE
        /\ app'.networks[0].client_count = 0
        /\ app'.networks[0].security_str = Bytes("WPA2-AES")
        /\ app'.networks[0].has_pmf = FALSE
        /\ app'.networks[0].hidden = FALSE]_vars

\* The example frame was the first message of the inventory.
C12_Witness ==
  /\ last.op = "rx"
  /\ last.chunk = Chunk.NetMyAP
  /\ last.pre.network_count = 0
  /\ app.network_count = 1
  /\ app.networks[0].rssi = -42

\* C13: the legacy example line adds one network whose id, ssid, bssid,
\* channel and rssi are those the binary decoder produces for the message
\* 1|TestNet|11:22:33:44:55:66|6|-55.
C13_LegacyApParity ==
  [][(/\ last'.op = "rx"
      /\ last'.chunk = Chunk.LegacyAp
      /\ app.network_count < MAX_NETWORKS)
     => LET want == parse_network_message(app, Chunk.ap_body)
                      .networks[app.network_count]
            got  == app'.networks[app.network_count]
        IN /\ app'.network_count = app.network_count + 1
           /\ got.id = want.id
           /\ got.ssid = want.ssid
           /\ got.bssid = want.bssid
           /\ got.channel = want.channel
           /\ got.rssi = want.rssi]_vars

\* C14: a detect_firmware run during which no byte is received returns with
\* the Unknown profile and a capability set in which only wifi scan and
\* broadcast deauth are true.
C14_SilentRunUnknown ==
  [][(pc = "detect_complete" /\ pc' # "detect_complete" /\ last.heard = {})
       => /\ app'.firmware_type = FirmwareUnknown
          /\ app'.caps = Caps(TRUE, FALSE, FALSE, FALSE, TRUE, FALSE, FALSE,
                              FALSE, FALSE, FALSE, FALSE, FALSE)]_vars

\* A silent run has returned after replies had been received before it, and
\* it sent all five probes.
C14_Witness ==
  /\ last.op = "detect_complete"
  /\ last.heard = {}
  /\ rx_used > 0
  /\ tx = <<Framed("i"), Legacy("INFO"), Legacy("PING"), Legacy("HELP"),
            Legacy("AT")>>
  /\ app.firmware_type = FirmwareUnknown
  /\ app.caps.wifi_scan /\ app.caps.broadcast_deauth

\* C15: within a detect_firmware run, a legacy probe (INFO, PING, HELP, AT)
\* is sent only if no recognised response (boot banner, modern info reply,
\* legacy INFO reply with a vendor token, PONG, HELP keywords, foreign
\* banner) has been received since the run's reset.
C15_NoProbeAfterRecognised ==
  [][(/\ pc \in DetectPhases
      /\ Len(tx') = Len(tx) + 1
      /\ ~tx'[Len(tx')].framed)
       => last.heard \cap {Reply.Banner, Reply.ModernInfo, Reply.InfoGattrose,
                           Reply.InfoEvil, Reply.Pong, Reply.Help,
                           Reply.Foreign} = {}]_vars

\* C16: the profile a detect_firmware run returns with is decided by the
\* highest-priority evidence received during the run: a legacy INFO reply
\* with the vendor token Gattrose gives the Gattrose profile whether or not
\* a PONG was received too, and a PONG alone gives the Evil-BW16 profile.
C16_PriorityDecides ==
  [][(pc = "detect_complete" /\ pc' # "detect_complete")
       => /\ last.heard \in {{Reply.InfoGattrose},
                              {Reply.InfoGattrose, Reply.Pong}}
               => app'.firmware_type = FirmwareGattrose
          /\ last.heard = {Reply.Pong}
               => app'.firmware_type = FirmwareEvilBW16]_vars

\* C17: once detect_firmware has returned and no operation is running, a
\* received message, framed or legacy, leaves firmware_type as it is.
C17_ProfileFrozenAfterDetect ==
  [][(pc = "idle" /\ last'.op = "rx")
       => app'.firmware_type = app.firmware_type]_vars

\* C18: while the profile is Unknown, no operation writes a command before
\* detect_firmware has run: a step of the control path taken with no
\* operation in progress and the profile Unknown writes nothing.
C18_DetectBeforeFirstCommand ==
  [][(pc = "idle" /\ app.firmware_type = FirmwareUnknown /\ last'.op # "rx")
       => tx' = <<>>]_vars

\* C19: an operation whose capability the capability set lacks writes no
\* command: deauth of a network needs broadcast_deauth, beacon spam needs
\* beacon_spam, BLE spam needs ble_spam.
C19_UnsupportedOmitted ==
  [][/\ (last'.op = "do_deauth" /\ ~app.caps.broadcast_deauth) => tx' = <<>>
     /\ (last'.op = "do_beacon" /\ ~app.caps.beacon_spam) => tx' = <<>>
     /\ (last'.op = "ble_spam" /\ ~app.caps.ble_spam) => tx' = <<>>]_vars

\* C20: every command an attack operation writes is framed if and only if
\* the profile is Gattrose.
C20_FramedIffGattrose ==
  [][last'.op \in {"do_deauth", "do_beacon", "ble_spam"}
       => \A i \in 1..Len(tx') :
            tx'[i].framed <=> app.firmware_type = FirmwareGattrose]_vars

\* C21: under the Gattrose profile the deauth command alone does not set
\* the targeted network's deauth_active flag: the flag is still false when
\* do_deauth has written its start command, and is set by the decoding of
\* the acknowledgement.
C21_FlagSetByAcknowledgement ==
  [][(/\ last'.op = "do_deauth"
      /\ app.firmware_type = FirmwareGattrose
      /\ ~app.networks[app.selected_network].deauth_active)
       => ~app'.networks[app.selected_network].deauth_active]_vars

\* C22: decoding a scan-status, monitor-status, deauth-status or
\* stop-confirmation message a second time leaves scan_finished, scanning,
\* monitor_active and every network's deauth_active as the first decoding
\* left them.
C22_StatusIdempotent ==
  [][(/\ last'.op = "rx"
      /\ last'.chunk \in {Chunk.ScanDone, Chunk.Scanning, Chunk.MonitorOn,
                          Chunk.MonitorOff, Chunk.DeauthAck, Chunk.StopAll})
       => LET again == uart_rx_bytes([app |-> app',
                                      in_message |-> in_message',
                                      nul_at |-> -1],
                                     last'.chunk, FALSE).app
          IN /\ again.scan_finished = app'.scan_finished
             /\ again.scanning = app'.scanning
             /\ again.monitor_active = app'.monitor_active
             /\ \A n \in 0..(MAX_NETWORKS - 1) :
                  again.networks[n].deauth_active
                    = app'.networks[n].deauth_active]_vars

\* The stop confirmation has been decoded after a deauth was started on the
\* one decoded network: its flag and the monitor flag are off.
C22_Witness ==
  /\ last.op = "rx"
  /\ last.chunk = Chunk.StopAll
  /\ app.network_count = 1
  /\ Len(tx) > 0
  /\ tx[Len(tx)].cmd \in {"d", "DEAUTH"}
  /\ ~app.networks[0].deauth_active
  /\ ~app.monitor_active

\* C23: the control path's accesses to the shared inventory exclude the
\* receive task: between do_scan's store to network_count and its store to
\* client_count, which clear the inventory as one section, the receive
\* task processes no byte.
C23_ControlPathExclusive ==
  [][last'.op = "rx" => pc # "scan_clear_clients"]_vars

C25_CredentialLogBounded ==
  [][/\ Len(app'.credentials) <= CREDENTIALS_SIZE - 1
     /\ \/ app'.credentials = app.credentials
        \/ /\ last'.op = "rx"
           /\ app'.credentials =
                app.credentials
                  \o (IF last'.chunk[1] = PROTO_STX
                      THEN ReplaceByte(SubSeq(last'.chunk, 3,
                                              Len(last'.chunk) - 1),
                                       PROTO_SEP, PIPE)
                      ELSE SubSeq(last'.chunk, 4, Len(last'.chunk) - 1))
                  \o <<LF>>
        \/ /\ last'.op = "do_create_ap"
           /\ app'.credentials = <<>>]_vars

\* With 500 bytes in the log a credential of ten bytes has been dropped.
C25_Witness ==
  /\ last.op = "rx"
  /\ last.chunk = Chunk.CredLine
  /\ Len(app.credentials) = 500

\* C26: an STX, in frame mode or not, empties the buffer and enters frame
\* mode without dispatching anything, so that a partial line or a partial
\* frame received before it reaches no decoder: the run SCAN:OK STX ETX LF
\* does not set scan_finished, and the run STX sDONE:3 STX mON ETX sets
\* monitor_active and not scan_finished.
C26_StxDiscardsPartial ==
  [][last'.op = "rx"
       => /\ last'.chunk = <<PROTO_STX>>
               => /\ app' = [app EXCEPT !.rx_line = <<>>, !.rx_pos = 0]
                  /\ in_message'
                  /\ last'.nul_at = -1
          /\ last'.chunk = Chunk.StxDiscards
               => app'.scan_finished = app.scan_finished
          /\ last'.chunk = Chunk.StxRestarts
               => /\ app'.scan_finished = app.scan_finished
                  /\ app'.monitor_active]_vars

\* An STX arrived while a partial line was in the buffer.
C26_Witness ==
  /\ last.op = "rx"
  /\ last.chunk = <<PROTO_STX>>
  /\ last.pre.rx_pos = 2
  /\ app.rx_pos = 0
  /\ in_message
  /\ ~app.got_pong

\* C27: an ETX in frame mode dispatches to the binary decoder the bytes
\* received since the latest STX, at most the first 255 of them, and leaves
\* frame mode with an empty buffer; an ETX outside frame mode changes
\* nothing.
C27_EtxDispatchesFrame ==
  [][last'.op = "rx"
       => /\ last'.chunk \in {Chunk.ScanDone, Chunk.CredLong}
               => /\ app' = [process_rx_message(
                                app, Take(SubSeq(last'.chunk, 2,
                                                 Len(last'.chunk) - 1),
                                          RX_LINE_SIZE - 1))
                               EXCEPT !.rx_line = <<>>, !.rx_pos = 0]
                  /\ ~in_message'
          /\ (last'.chunk = <<PROTO_ETX>> /\ in_message)
               => /\ app' = [process_rx_message(app, app.rx_line)
                               EXCEPT !.rx_line = <<>>, !.rx_pos = 0]
                  /\ ~in_message'
                  /\ last'.nul_at = app.rx_pos
          /\ (last'.chunk = <<PROTO_ETX>> /\ ~in_message)
               => /\ app' = app
                  /\ ~in_message'
                  /\ last'.nul_at = -1]_vars

\* A frame of 301 bytes was dispatched: tag C and 254 of its 300 letters
\* made the credential.
C27_Witness ==
  /\ last.op = "rx"
  /\ last.chunk = Chunk.CredLong
  /\ Len(app.credentials) = RX_LINE_SIZE - 1
  /\ ~in_message
  /\ app.rx_pos = 0

\* C28: outside frame mode a newline dispatches to the legacy line decoder
\* the bytes accumulated since the last dispatch or reset, which are the
\* received bytes from 32 up and tabs (a carriage return is not among
\* them), and empties the buffer.
C28_NewlineDispatchesLine ==
  [][(/\ last'.op = "rx"
      /\ last'.chunk \in {<<LF>>, Chunk.LineRest, Chunk.PongCr}
      /\ ~in_message)
       => LET Keep(b) == b >= 32 \/ b = TAB
              body == SubSeq(last'.chunk, 1, Len(last'.chunk) - 1)
              line == Take(app.rx_line \o SelectSeq(body, Keep),
                           RX_LINE_SIZE - 1)
          IN /\ app' = IF Len(line) > 0
                       THEN [process_rx_line(
                               [app EXCEPT !.rx_line = line,
                                           !.rx_pos = Len(line)],
                               line, FALSE)
                             EXCEPT !.rx_line = <<>>, !.rx_pos = 0]
                       ELSE app
             /\ ~in_message']_vars

\* The line PONG arrived in two runs, the second ending in CR LF, and was
\* recognised.
C28_Witness ==
  /\ last.op = "rx"
  /\ last.chunk = Chunk.LineRest
  /\ last.pre.rx_pos = 2
  /\ app.got_pong
  /\ app.rx_pos = 0

\* C29, as stated: successive token_next calls return every field of the
\* split, in order, and no-token from then on.
C29_EveryFieldReturned ==
  LET buf == ts.buffer
      ds  == {i \in 1..Len(buf) : buf[i] = ts.delim}
      Cut(k) == CHOOSE i \in ds \union {0, Len(buf) + 1} :
                  Cardinality({j \in ds \union {0} : j < i}) = k
      Field(k) == SubSeq(buf, Cut(k - 1) + 1, Cut(k) - 1)
  IN \A k \in 1..Len(ts.returned) :
       IF k <= Cardinality(ds) + 1
       THEN ts.returned[k].found /\ ts.returned[k].tok = Field(k)
       ELSE ~ts.returned[k].found

\* C29, as the code has it: successive token_next calls return the fields
\* of the split in order, an empty field between adjacent delimiters
\* included, except that an empty field at the very end of the buffer (an
\* empty buffer, or one ending in the delimiter) is not returned; after the
\* last returned field every call returns no-token, and at most the number
\* of delimiters plus one calls return a token.
C29_FieldsButEmptyLast ==
  LET buf == ts.buffer
      ds  == {i \in 1..Len(buf) : buf[i] = ts.delim}
      Cut(k) == CHOOSE i \in ds \union {0, Len(buf) + 1} :
                  Cardinality({j \in ds \union {0} : j < i}) = k
      Field(k) == SubSeq(buf, Cut(k - 1) + 1, Cut(k) - 1)
      fields == IF Field(Cardinality(ds) + 1) = <<>>
                THEN Cardinality(ds)
                ELSE Cardinality(ds) + 1
  IN /\ \A k \in 1..Len(ts.returned) :
          IF k <= fields
          THEN ts.returned[k].found /\ ts.returned[k].tok = Field(k)
          ELSE ~ts.returned[k].found
     /\ Cardinality({k \in 1..Len(ts.returned) : ts.returned[k].found})
          <= Cardinality(ds) + 1

\* The buffer A|| split at the bar: A, the empty field between the bars,
\* then no-token twice; the empty field after the last bar is not returned.
C29_Witness ==
  /\ ts.buffer = <<Code("A"), PIPE, PIPE>>
  /\ ts.delim = PIPE
  /\ Len(ts.returned) = 4
  /\ ts.returned[1] = [found |-> TRUE, tok |-> <<Code("A")>>]
  /\ ts.returned[2] = [found |-> TRUE, tok |-> <<>>]
  /\ ~ts.returned[3].found
  /\ ~ts.returned[4].found

\* C30: a binary network message with its five leading fields and no
\* trailing field is added with is_5ghz false, client_count 0, security
\* label ???, has_pmf false and hidden false; one that stops after the
\* client count is added with the band and the count it carries and the
\* other three at their defaults; one with fewer than five fields leaves
\* network_count unchanged.
C30_AbsentFieldsDefault ==
  [][(last'.op = "rx" /\ app.network_count < MAX_NETWORKS)
       => LET net == app'.networks[app.network_count]
          IN /\ last'.chunk = Chunk.NetFive
                  => /\ app'.network_count = app.network_count + 1
                     /\ net.id = 5
                     /\ net.ssid = Bytes("Gamma")
                     /\ net.bssid = Bytes("AA:BB:CC:DD:EE:03")
                     /\ net.channel = 36
                     /\ net.rssi = -30
                     /\ ~net.is_5ghz
                     /\ net.client_count = 0
                     /\ net.security_str = Bytes("???")
                     /\ ~net.has_pmf
                     /\ ~net.hidden
             /\ last'.chunk = Chunk.NetSeven
                  => /\ app'.network_count = app.network_count + 1
                     /\ net.id = 6
                     /\ net.is_5ghz
                     /\ net.client_count = 2
                     /\ net.security_str = Bytes("???")
                     /\ ~net.has_pmf
                     /\ ~net.hidden
             /\ last'.chunk \in {Chunk.NetShort, Chunk.NetBare}
                  => app'.network_count = app.network_count]_vars

\* A four-field message was dropped, then a five-field one was added with
\* the unknown security label.
C30_Witness ==
  /\ last.op = "rx"
  /\ last.chunk = Chunk.NetFive
  /\ rx_used = 2
  /\ app.network_count = 1
  /\ app.networks[0].id = 5
  /\ app.networks[0].security_str = Bytes("???")
  /\ ~app.networks[0].hidden

C32_DetectTerminatesInOrder ==
  LET order == <<Framed("i"), Legacy("INFO"), Legacy("PING"),
                 Legacy("HELP"), Legacy("AT")>>
  IN /\ [](pc \in DetectPhases
            => /\ Len(tx) <= Len(order)
               /\ tx = SubSeq(order, 1, Len(tx)))
     /\ [](last.op = "detect_complete"
            => /\ app.caps = firmware_caps[app.firmware_type]
               /\ pc \notin DetectPhases
               /\ Len(tx) <= Len(order)
               /\ tx = SubSeq(order, 1, Len(tx)))
     /\ (pc = "detect_boot" ~> last.op = "detect_complete")

\* A run against a silent peripheral ended after all five probes, with the
\* capability row of the unknown profile attached.
C32_Witness ==
  /\ last.op = "detect_complete"
  /\ pc = "idle"
  /\ [k \in 1..Len(tx) |-> tx[k].cmd] = <<"i", "INFO", "PING", "HELP", "AT">>
  /\ app.firmware_type = FirmwareUnknown
  /\ app.caps = firmware_caps[FirmwareUnknown]

\* C33: when do_deauth starts a deauth on the selected network, a profile
\* other than Gattrose gets APMAC, REASON, PORTAL and then DEAUTH, in that
\* order and nothing else; the Gattrose profile gets the LED command r3 and
\* then the one d command, and none of the configuration commands.
C33_ConfigBeforeTrigger ==
  [][(/\ last'.op = "do_deauth"
      /\ ~app.networks[app.selected_network].deauth_active)
       => LET cmds == [k \in 1..Len(tx') |-> tx'[k].cmd]
          IN IF app.firmware_type = FirmwareGattrose
             THEN /\ cmds = <<"r3", "d">>
                  /\ \A k \in 1..Len(cmds) :
                       cmds[k] \notin {"APMAC", "REASON", "PORTAL"}
             ELSE cmds = <<"APMAC", "REASON", "PORTAL", "DEAUTH">>]_vars

\* A deauth was started under a legacy profile: the three configuration
\* commands, then the trigger.
C33_Witness ==
  /\ last.op = "do_deauth"
  /\ app.firmware_type # FirmwareGattrose
  /\ app.networks[app.selected_network].deauth_active
  /\ Len(tx) = 4
  /\ tx[1].cmd = "APMAC"
  /\ tx[4] = Legacy("DEAUTH")

\* C34: a press on a client entry writes nothing and leaves the App as it
\* was when the profile is not Gattrose and the capability set lacks
\* targeted deauth, when the selected network is out of range, and when
\* the entry or the client it names is out of range.
C34_UnsupportedTargetedDeauthNoOp ==
  [][(/\ last'.op = "client_list"
      /\ LET sel == app.selected_network
             index == last'.chunk[1]
         IN \/ (/\ app.firmware_type # FirmwareGattrose
                 /\ ~app.caps.targeted_deauth)
            \/ sel < 0
            \/ sel >= app.network_count
            \/ index >= app.networks[sel].client_count
            \/ (/\ index < MAX_CLIENTS_PER_AP
                 /\ \/ app.networks[sel].client_indices[index] < 0
                    \/ app.networks[sel].client_indices[index]
                         >= app.client_count))
       => (tx' = <<>> /\ app' = app)]_vars

\* The first client of the selected network was pressed under the unknown
\* profile: nothing was written and the network is not marked.
C34_Witness ==
  /\ last.op = "client_list"
  /\ last.chunk = <<0>>
  /\ app.firmware_type = FirmwareUnknown
  /\ app.detection_done = FALSE
  /\ ~app.caps.targeted_deauth
  /\ app.network_count = 1
  /\ app.client_count = 1
  /\ app.networks[0].client_count = 1
  /\ app.networks[0].client_indices[0] = 0
  /\ ~app.networks[0].deauth_active
  /\ tx = <<>>

\* C35: once do_scan has cleared the counts, no network that was in the
\* collection before the clear is in it (nothing removes a network between
\* the clear and the sort, so none would be there for the sort either), and
\* both counts are 0 when the scan command is written.
C35_ScanStartsEmpty ==
  [][/\ last'.op \in {"scan_clear_networks", "clear_during_decode"}
          => \A i \in 0..(app'.network_count - 1) :
               \A j \in 0..(app.network_count - 1) :
                 app'.networks[i] # app.networks[j]
     /\ last'.op = "scan_clear_clients" => app'.client_count = 0]_vars

\* C36: with no report of scan completion the wait loop counts at most 20
\* polls; every scan that has reached its clear goes on to sort_networks
\* and returns; and when it returns it has written exactly one request for
\* the network list, then one request for the client list if the
\* capability set has client detection and none if it has not.
C36_ScanReturns ==
  LET Asked(cmds) == {k \in 1..Len(tx) : tx[k].cmd \in cmds}
  IN /\ [](times <= SCAN_POLLS)
     /\ [](last.op = "sort"
            => /\ pc = "idle"
               /\ ~app.scanning
               /\ Cardinality(Asked({"g", "LIST"})) = 1
               /\ Cardinality(Asked({"c", "CLIENTS"}))
                    = (IF app.caps.client_detection THEN 1 ELSE 0)
               /\ \A k \in Asked({"c", "CLIENTS"}) :
                    \A l \in Asked({"g", "LIST"}) : l < k)
     /\ (pc = "scan_clear" ~> last.op = "sort")

\* A scan under the Gattrose profile returned after the full wait with the
\* list and the client list requested.
C36_Witness ==
  /\ last.op = "sort"
  /\ pc = "idle"
  /\ ~app.scan_finished
  /\ app.caps.client_detection
  /\ [k \in 1..Len(tx) |-> tx[k].cmd] = <<"r1", "s", "g", "c", "r0,255,0">>

\* C37: decoding an r message whose body begins with LED leaves
\* firmware_type, detection_done and firmware_version as they were;
\* decoding an r message with any other body (the banner, an empty body, a
\* body with LED further in) sets firmware_type to Gattrose and
\* detection_done to true.
C37_LedReplyIsNotBanner ==
  [][last'.op = "rx"
       => /\ last'.chunk \in {Chunk.LedOff, Chunk.LedColor}
               => /\ app'.firmware_type = app.firmware_type
                  /\ app'.detection_done = app.detection_done
                  /\ app'.firmware_version = app.firmware_version
          /\ last'.chunk \in {Reply.Banner, Chunk.ReadyBare, Chunk.ReadyNoLed}
               => /\ app'.firmware_type = FirmwareGattrose
                  /\ app'.detection_done]_vars

\* An LED reply was decoded after a legacy INFO line had named the Evil
\* firmware: the profile is still that one and detection is not marked
\* done.
C37_Witness ==
  /\ last.op = "rx"
  /\ last.chunk = Chunk.LedOff
  /\ app.firmware_type = FirmwareEvilBW16
  /\ ~app.detection_done

\* C38: while the control path is idle (the first detection run has
\* completed and none is in progress) the capability set is the row of the
\* current firmware_type.
C38_CapsMatchProfile ==
  pc = "idle" => app.caps = firmware_caps[app.firmware_type]

\* C39: a client message that is accepted links the new client to the
\* network whose id is the owner it names: 0 for the binary messages c0|...,
\* 7 for the legacy line CLIENT:7:...
C39_OwnerById ==
  [][(/\ last'.op = "rx"
      /\ app'.client_count = app.client_count + 1)
       => LET owner == app'.networks[app'.clients[app.client_count].ap_index]
          IN /\ last'.chunk \in {Chunk.CliA, Chunk.CliSta} => owner.id = 0
             /\ last'.chunk = Chunk.LegCli => owner.id = 7]_vars

\* C40: after do_stop_all, and after decoding the stop confirmation x, no
\* network of the collection has deauth_active set and monitor_active is
\* false; after do_stop_all the six advanced-attack flags are false as well;
\* and neither changes network_count, client_count, a client, or a
\* network's client list.
C40_StopClearsFlags ==
  [][(\/ last'.op = "do_stop_all"
      \/ last'.op = "rx" /\ last'.chunk = Chunk.StopAll)
       => /\ \A i \in 0..(app'.network_count - 1) :
               ~app'.networks[i].deauth_active
          /\ ~app'.monitor_active
          /\ last'.op = "do_stop_all"
               => /\ ~app'.jammer_active
                  /\ ~app'.probe_log_active
                  /\ ~app'.karma_active
                  /\ ~app'.pmkid_capture_active
                  /\ ~app'.handshake_capture_active
                  /\ ~app'.rogue_monitor_active
          /\ app'.network_count = app.network_count
          /\ app'.client_count = app.client_count
          /\ app'.clients = app.clients
          /\ \A i \in 0..(MAX_NETWORKS - 1) :
               /\ app'.networks[i].client_indices
                    = app.networks[i].client_indices
               /\ app'.networks[i].client_count
                    = app.networks[i].client_count]_vars

\* The stop confirmation was decoded after a deauth had been started on a
\* network with a client: the network is no longer marked and the client is
\* still linked.
C40_Witness ==
  /\ last.op = "rx"
  /\ last.chunk = Chunk.StopAll
  /\ Len(tx) > 0
  /\ tx[Len(tx)].cmd \in {"d", "DEAUTH"}
  /\ app.network_count = 1
  /\ app.client_count = 1
  /\ app.networks[0].client_indices[0] = 0
  /\ ~app.networks[0].deauth_active

====
